---------------------------- MODULE Spec2Model ----------------------------
(***************************************************************************)
(* Model of the job protocol of the Khmer AI Video Dubber: the four stage  *)
(* workers (TranscribeWorker, TranslateWorker, TTSWorker, ExportWorker),   *)
(* export_video, and the MainWindow slots their signals are connected to.  *)
(*                                                                         *)
(* One behaviour is one job: a worker object has been constructed, its     *)
(* signals are connected to the coordinator's slots as the connect() calls *)
(* of the MainWindow._on_*_clicked handlers state them, and its thread has *)
(* been started.  The worker emits signals from its own thread; they are   *)
(* delivered to the coordinator's slots in emission order (queued          *)
(* connections) by the action Deliver.                                     *)
(*                                                                         *)
(* Texts are integer codes, 0 being the empty string.  Times slept are in  *)
(* milliseconds.  _build_atempo_chain is also explored on its own         *)
(* (SpecAtempo), with tempos in hundredths and factors in thousandths, and *)
(* so are write_srt (SpecSrt) and the delays of _pre_mix_tts_audio         *)
(* (SpecDelay), with the times of the segments in milliseconds.            *)
(***************************************************************************)
EXTENDS Integers, Sequences, FiniteSets, TLC

\* ------------------------------------------------------------------ bounds
MaxSegs   == 2      \* longest timeline / transcription result explored
MaxLines  == 2      \* most diagnostic lines the encoder prints in one run
MaxFails  == 6      \* most failed translation / synthesis calls in one job
MaxLoads  == 3      \* most videos loaded, and most load attempts refused, in one session
MaxEdits  == 2      \* most cells of the caption table edited by hand in one session

\* ------------------------------------------------------- program constants
MIN_SPEED       == 25      \* CaptionTable._on_item_changed: max(0.25, ...)
MAX_SPEED       == 400     \* CaptionTable._on_item_changed: min(4.0, ...)
MAX_RETRIES     == 3       \* TranslateWorker.MAX_RETRIES
RETRY_DELAY     == 2000    \* TranslateWorker.RETRY_DELAY (2.0 s)
max_retries     == 5       \* TTSWorker.run: max_retries
INTER_REQUEST   == 500     \* TTSWorker.run: time.sleep(0.5)
TAIL_LINES      == 20      \* export_video: stderr_lines[-20:]

Kinds == {"transcribe", "translate", "tts", "export"}

VARIABLES
    kind,               \* class of the worker of this job
    captions,           \* CaptionTable._captions: the Caption objects, shared with the worker
    pc,                 \* position of the worker thread inside run()
    i,                  \* loop variable of run() (0-based position in the list)
    attempt,            \* attempt counter of the retry loop
    translated,         \* TranslateWorker.run local `translated` (0 = None)
    cancelled,          \* worker._cancelled (workers that have the attribute)
    trace,              \* everything the worker did that is visible outside: signals, calls, sleeps
    cancelAt,           \* Len(trace) when the cancel request arrived, -1 if none arrived
    cancelPc,           \* pc of the worker thread when the cancel request arrived
    cancelI,            \* i of the worker thread when the cancel request arrived
    captions0,          \* the timeline the job was started with
    cancel_calls,       \* calls of worker.cancel() so far; 2 stands for two or more
    delivered,          \* number of trace entries the coordinator's event loop has consumed
    busy,               \* MainWindow._busy
    was_cancelled,      \* MainWindow._was_cancelled
    cancel_enabled,     \* cancel_btn.isEnabled()
    translate_skipped,  \* MainWindow._translate_skipped
    status,             \* status_label text, as [msg, n]
    progress_bar,       \* progress_bar.value()
    dialogs,            \* message boxes shown so far (sequence of "error" / "export_complete")
    segments,           \* TranscribeWorker.run local `segments` (their number)
    result,             \* TranscribeWorker.run local `captions`: the list being built
    duration,           \* export_video local `duration` (s)
    has_tts,            \* export_video local `has_tts`
    tmp_tts_path,       \* export_video local `tmp_tts_path` (0 = None)
    use_nvenc,          \* export_video local `use_nvenc`
    stderr_lines,       \* export_video local `stderr_lines` (number of lines kept)
    NVENC_AVAILABLE,    \* ffmpeg_utils._NVENC_AVAILABLE: "None", "True" or "False"
    files,              \* paths that exist on disk
    speed,              \* _build_atempo_chain argument `speed`, in hundredths
    remaining,          \* _build_atempo_chain local `remaining`, in thousandths
    filters,            \* _build_atempo_chain local `filters`, in thousandths
    fpc,                \* position inside the utility function explored ("" while none is)
    fn_captions,        \* argument `captions` of write_srt (times in ms) or of
                        \* _pre_mix_tts_audio (times in tenths of a ms)
    fn_out,             \* what the utility function has produced
    video_path,         \* MainWindow._video_path (0 = None)
    tts_dir,            \* MainWindow._tts_dir (0 = None)
    tmp_dirs,           \* the kh_tts_ directories on disk, each with the clips in it
    closed,             \* the main window has been closed
    edits               \* cells of the caption table edited by hand so far

\* locals of the retry loops, of TranscribeWorker.run, of export_video
trLocals == <<attempt, translated>>
tsLocals == <<segments, result>>
exLocals == <<duration, has_tts, tmp_tts_path, use_nvenc, stderr_lines, NVENC_AVAILABLE, files>>

\* argument and locals of _build_atempo_chain
fnLocals == <<speed, remaining, filters, fpc>>

\* argument and result of the functions that take a caption list
fnArgs == <<fn_captions, fn_out>>

\* the video loaded and its directory of clips
appVars == <<video_path, tts_dir, tmp_dirs, closed, edits>>

coordVars  == <<delivered, busy, was_cancelled, cancel_enabled, translate_skipped,
                status, progress_bar, dialogs>>

\* bookkeeping of the verification, read by no action
history == <<cancelAt, cancelPc, cancelI, captions0, cancel_calls>>

\* what no step of a worker thread writes
notWorker == <<kind, captions, cancelled, history, coordVars, fnLocals, fnArgs, appVars>>

vars == <<kind, captions, pc, i, trLocals, tsLocals, exLocals, cancelled, trace,
          history, coordVars, fnLocals, fnArgs, appVars>>

\* ------------------------------------------------------------------ helpers
Ev(e, a, b) == [ev |-> e, n |-> a, x |-> b]

SignalNames == {"progress", "caption_translated", "caption_skipped",
                "caption_audio_ready", "captions_ready", "done", "error", "finished"}

IsSignal(e) == e.ev \in SignalNames

Positions(t) == 1..Len(t)

\* the subsequence of t whose entries satisfy the name set S
RECURSIVE Filter(_, _)
Filter(t, S) ==
    IF t = <<>> THEN <<>>
    ELSE IF Head(t).ev \in S THEN <<Head(t)>> \o Filter(Tail(t), S)
         ELSE Filter(Tail(t), S)

Count(t, S) == Cardinality({p \in Positions(t) : t[p].ev \in S})

\* Caption as a record; the dataclass defaults for the fields a job does not set
Caption(idx, st, en, orig, km, tts) ==
    [index |-> idx, start |-> st, end |-> en, original_text |-> orig,
     khmer_text |-> km, speed |-> 100, offset |-> 0, tts_audio_path |-> tts, voice |-> 0]

\* The external translation of a text: some non-empty text determined by the source text
Translation(orig) == 100 + orig

\* mutant: the share of the segments still to do
Pct_Remaining(k, total) == ((total - k) * 100) \div total

\* int((k) / total * 100) for the list lengths explored
Pct(k, total) == (k * 100) \div total

\* `len(self._captions) or 1`
LenOr1(s) == IF Len(s) = 0 THEN 1 ELSE Len(s)

\* --------------------------------------------------------------- the worker
Emit(e) == trace' = Append(trace, e)

\* cancel(): workers that define it set their flag; _on_cancel_clicked calls it
\* only `if self._worker and hasattr(self._worker, "cancel")`
HasCancel(k) == k \in {"translate", "export"}

\* ----- TranslateWorker.run
TrStart ==
    /\ kind = "translate" /\ pc = "start"
    /\ pc' = "tr_loop"
    /\ i' = 0
    /\ UNCHANGED <<attempt, translated, trace, tsLocals, exLocals, notWorker>>

\* head of `for i, cap in enumerate(self._captions)`: the cancellation checkpoint
TrLoop ==
    /\ kind = "translate" /\ pc = "tr_loop"
    /\ IF i >= Len(captions)
         THEN /\ Emit(Ev("progress", 100, 0))
              /\ pc' = "finally"
              /\ UNCHANGED <<attempt, translated>>
         ELSE IF cancelled
           THEN /\ pc' = "finally"
                /\ UNCHANGED <<attempt, translated, trace>>
           ELSE /\ translated' = 0
                /\ attempt' = 1
                /\ pc' = "tr_call"
                /\ UNCHANGED trace
    /\ UNCHANGED <<i, tsLocals, exLocals, notWorker>>

\* translate_text(cap.original_text, target_language="km") is dispatched
TrCall ==
    /\ kind = "translate" /\ pc = "tr_call"
    /\ Emit(Ev("call_translate", captions[i + 1].index, attempt))
    /\ pc' = "tr_wait"
    /\ UNCHANGED <<i, attempt, translated, tsLocals, exLocals, notWorker>>

\* the call returns a non-empty text, returns None or "", or raises
TrReturn(outcome) ==
    /\ kind = "translate" /\ pc = "tr_wait"
    /\ LET cap == captions[i + 1]
           ret == Ev(outcome, cap.index, attempt)
       IN CASE outcome = "ret_ok" ->
                 /\ translated' = Translation(cap.original_text)
                 /\ trace' = Append(trace, ret)
                 /\ pc' = "tr_emit"
                 /\ UNCHANGED attempt
            [] outcome = "ret_empty" ->
                 /\ trace' = Append(trace, ret)
                 /\ IF attempt < MAX_RETRIES
                      THEN attempt' = attempt + 1 /\ pc' = "tr_call"
                      ELSE attempt' = attempt /\ pc' = "tr_emit"
                 /\ UNCHANGED translated
            [] outcome = "ret_raise" ->
                 /\ IF attempt < MAX_RETRIES
                      THEN /\ trace' = trace \o <<ret, Ev("sleep", RETRY_DELAY, 0)>>
                           /\ attempt' = attempt + 1
                           /\ pc' = "tr_call"
                      ELSE /\ trace' = Append(trace, ret)
                           /\ attempt' = attempt
                           /\ pc' = "tr_emit"
                 /\ UNCHANGED translated
    /\ UNCHANGED <<i, tsLocals, exLocals, notWorker>>

\* mutant: exhausting the attempts of a segment is fatal, as it is in TTSWorker
TrEmit_Fatal ==
    /\ kind = "translate" /\ pc = "tr_emit"
    /\ LET cap   == captions[i + 1]
           total == LenOr1(captions)
       IN IF translated # 0
            THEN /\ trace' = trace \o <<Ev("caption_translated", cap.index, translated),
                                        Ev("progress", Pct(i + 1, total), 0)>>
                 /\ i' = i + 1
                 /\ pc' = "tr_loop"
            ELSE /\ Emit(Ev("error", 0, 0))
                 /\ i' = i
                 /\ pc' = "finally"
    /\ UNCHANGED <<attempt, translated, tsLocals, exLocals, notWorker>>

\* mutant: the notification carries the 1-based position plus one
TrEmit_OffByOne ==
    /\ kind = "translate" /\ pc = "tr_emit"
    /\ LET cap   == captions[i + 1]
           total == LenOr1(captions)
           note  == IF translated # 0
                      THEN Ev("caption_translated", cap.index + 1, translated)
                      ELSE Ev("caption_skipped", cap.index + 1, 0)
       IN trace' = trace \o <<note, Ev("progress", Pct(i + 1, total), 0)>>
    /\ i' = i + 1
    /\ pc' = "tr_loop"
    /\ UNCHANGED <<attempt, translated, tsLocals, exLocals, notWorker>>

\* after the retry loop: publish the segment's result and its progress
TrEmit ==
    /\ kind = "translate" /\ pc = "tr_emit"
    /\ LET cap   == captions[i + 1]
           total == LenOr1(captions)
           note  == IF translated # 0
                      THEN Ev("caption_translated", cap.index, translated)
                      ELSE Ev("caption_skipped", cap.index, 0)
       IN trace' = trace \o <<note, Ev("progress", Pct(i + 1, total), 0)>>
    /\ i' = i + 1
    /\ pc' = "tr_loop"
    /\ UNCHANGED <<attempt, translated, tsLocals, exLocals, notWorker>>

\* ----- TTSWorker.run
\* out_path = os.path.join(self._output_dir, f"tts_{cap.index:04d}.mp3")
OutPath(idx) == 1000 + idx

\* 2 ** attempt, in milliseconds
RECURSIVE Pow2(_)
Pow2(k) == IF k = 0 THEN 1 ELSE 2 * Pow2(k - 1)
\* mutant: linear backoff
Backoff_Linear(k) == (k + 1) * 1000

Backoff(k) == Pow2(k) * 1000

\* `import edge_tts`, os.makedirs: either may raise, which ends the run in `except`
TtsStart(ok) ==
    /\ kind = "tts" /\ pc = "start"
    /\ IF ok THEN /\ pc' = "tts_loop"
                  /\ UNCHANGED trace
             ELSE /\ Emit(Ev("error", 0, 0))
                  /\ pc' = "finally"
    /\ i' = 0
    /\ UNCHANGED <<trLocals, tsLocals, exLocals, notWorker>>

\* mutant: a caption without Khmer text is synthesized like any other
TtsLoop_NoSkip ==
    /\ kind = "tts" /\ pc = "tts_loop"
    /\ IF i >= Len(captions)
         THEN /\ Emit(Ev("progress", 100, 0))
              /\ pc' = "finally"
              /\ UNCHANGED <<i, attempt>>
         ELSE /\ attempt' = 0
              /\ pc' = "tts_call"
              /\ UNCHANGED <<i, trace>>
    /\ UNCHANGED <<translated, tsLocals, exLocals, notWorker>>

\* head of the loop; a caption without Khmer text only reports progress
TtsLoop ==
    /\ kind = "tts" /\ pc = "tts_loop"
    /\ IF i >= Len(captions)
         THEN /\ Emit(Ev("progress", 100, 0))
              /\ pc' = "finally"
              /\ UNCHANGED <<i, attempt>>
         ELSE IF captions[i + 1].khmer_text = 0
           THEN /\ Emit(Ev("progress", Pct(i + 1, LenOr1(captions)), 0))
                /\ i' = i + 1
                /\ pc' = "tts_loop"
                /\ UNCHANGED attempt
           ELSE /\ attempt' = 0
                /\ pc' = "tts_call"
                /\ UNCHANGED <<i, trace>>
    /\ UNCHANGED <<translated, tsLocals, exLocals, notWorker>>

\* edge_tts.Communicate(...); asyncio.run(communicate.save(out_path)) is dispatched
TtsCall ==
    /\ kind = "tts" /\ pc = "tts_call"
    /\ Emit(Ev("call_tts", captions[i + 1].index, attempt))
    /\ pc' = "tts_wait"
    /\ UNCHANGED <<i, trLocals, tsLocals, exLocals, notWorker>>

\* mutant: a segment whose attempts are exhausted is skipped, as in TranslateWorker
TtsReturn_Skip(ok) ==
    /\ kind = "tts" /\ pc = "tts_wait"
    /\ LET idx == captions[i + 1].index
       IN IF ok
            THEN /\ Emit(Ev("ret_ok", idx, attempt))
                 /\ files' = files \cup {OutPath(idx)}
                 /\ pc' = "tts_emit"
                 /\ UNCHANGED <<i, attempt>>
            ELSE IF attempt = max_retries - 1
              THEN /\ trace' = trace \o <<Ev("ret_raise", idx, attempt),
                                          Ev("progress", Pct(i + 1, LenOr1(captions)), 0)>>
                   /\ i' = i + 1
                   /\ pc' = "tts_loop"
                   /\ UNCHANGED <<attempt, files>>
              ELSE /\ trace' = trace \o <<Ev("ret_raise", idx, attempt),
                                          Ev("sleep", Backoff(attempt), 0)>>
                   /\ attempt' = attempt + 1
                   /\ pc' = "tts_call"
                   /\ UNCHANGED <<i, files>>
    /\ UNCHANGED <<translated, tsLocals, duration, has_tts, tmp_tts_path, use_nvenc,
                   stderr_lines, NVENC_AVAILABLE, notWorker>>

\* mutant: after the last failed attempt the loop falls through to the publication
TtsReturn_FallThrough(ok) ==
    /\ kind = "tts" /\ pc = "tts_wait"
    /\ LET idx == captions[i + 1].index
       IN IF ok
            THEN /\ Emit(Ev("ret_ok", idx, attempt))
                 /\ files' = files \cup {OutPath(idx)}
                 /\ pc' = "tts_emit"
                 /\ UNCHANGED attempt
            ELSE IF attempt = max_retries - 1
              THEN /\ Emit(Ev("ret_raise", idx, attempt))
                   /\ pc' = "tts_emit"
                   /\ UNCHANGED <<attempt, files>>
              ELSE /\ trace' = trace \o <<Ev("ret_raise", idx, attempt),
                                          Ev("sleep", Backoff(attempt), 0)>>
                   /\ attempt' = attempt + 1
                   /\ pc' = "tts_call"
                   /\ UNCHANGED files
    /\ UNCHANGED <<i, translated, tsLocals, duration, has_tts, tmp_tts_path, use_nvenc,
                   stderr_lines, NVENC_AVAILABLE, notWorker>>

\* the synthesis call returns (file written) or raises
TtsReturn(ok) ==
    /\ kind = "tts" /\ pc = "tts_wait"
    /\ LET idx == captions[i + 1].index
       IN IF ok
            THEN /\ Emit(Ev("ret_ok", idx, attempt))
                 /\ files' = files \cup {OutPath(idx)}
                 /\ pc' = "tts_emit"
                 /\ UNCHANGED attempt
            ELSE IF attempt = max_retries - 1
              THEN /\ trace' = trace \o <<Ev("ret_raise", idx, attempt), Ev("error", 0, 0)>>
                   /\ pc' = "finally"
                   /\ UNCHANGED <<attempt, files>>
              ELSE /\ trace' = trace \o <<Ev("ret_raise", idx, attempt),
                                          Ev("sleep", Backoff(attempt), 0)>>
                   /\ attempt' = attempt + 1
                   /\ pc' = "tts_call"
                   /\ UNCHANGED files
    /\ UNCHANGED <<i, translated, tsLocals, duration, has_tts, tmp_tts_path, use_nvenc,
                   stderr_lines, NVENC_AVAILABLE, notWorker>>

\* mutant: the inter-request delay follows every segment, the last one too
TtsEmit_AlwaysSleep ==
    /\ kind = "tts" /\ pc = "tts_emit"
    /\ LET cap  == captions[i + 1]
           sigs == <<Ev("caption_audio_ready", cap.index, OutPath(cap.index)),
                     Ev("progress", Pct(i + 1, LenOr1(captions)), 0)>>
       IN trace' = trace \o sigs \o <<Ev("sleep", INTER_REQUEST, 0)>>
    /\ i' = i + 1
    /\ pc' = "tts_loop"
    /\ UNCHANGED <<trLocals, tsLocals, exLocals, notWorker>>

\* after the retry loop: publish the path, the progress, then the inter-request delay
TtsEmit ==
    /\ kind = "tts" /\ pc = "tts_emit"
    /\ LET cap  == captions[i + 1]
           sigs == <<Ev("caption_audio_ready", cap.index, OutPath(cap.index)),
                     Ev("progress", Pct(i + 1, LenOr1(captions)), 0)>>
       IN trace' = IF i < Len(captions) - 1
                     THEN trace \o sigs \o <<Ev("sleep", INTER_REQUEST, 0)>>
                     ELSE trace \o sigs
    /\ i' = i + 1
    /\ pc' = "tts_loop"
    /\ UNCHANGED <<trLocals, tsLocals, exLocals, notWorker>>

\* ----- TranscribeWorker.run
\* `from main import load_model` may raise; otherwise progress 5
TsStart(ok) ==
    /\ kind = "transcribe" /\ pc = "start"
    /\ IF ok THEN /\ Emit(Ev("progress", 5, 0))
                  /\ pc' = "ts_load"
             ELSE /\ Emit(Ev("error", 0, 0))
                  /\ pc' = "finally"
    /\ UNCHANGED <<i, trLocals, tsLocals, exLocals, notWorker>>

\* load_model(self._model_name) returns or raises
TsLoad(ok) ==
    /\ kind = "transcribe" /\ pc = "ts_load"
    /\ IF ok THEN /\ Emit(Ev("progress", 20, 0))
                  /\ pc' = "ts_call"
             ELSE /\ Emit(Ev("error", 0, 0))
                  /\ pc' = "finally"
    /\ UNCHANGED <<i, trLocals, tsLocals, exLocals, notWorker>>

\* model.transcribe(...) is dispatched
TsCall ==
    /\ kind = "transcribe" /\ pc = "ts_call"
    /\ Emit(Ev("call_transcribe", 0, 0))
    /\ pc' = "ts_wait"
    /\ UNCHANGED <<i, trLocals, tsLocals, exLocals, notWorker>>

\* the segment number k of a transcription: [2k-2, 2k-1] seconds, text k
Segment(k) == [start |-> 2 * k - 2, end |-> 2 * k - 1, text |-> k]

\* model.transcribe returns nseg segments (nseg = -1: it raises)
TsReturn(nseg) ==
    /\ kind = "transcribe" /\ pc = "ts_wait"
    /\ IF nseg < 0
         THEN /\ trace' = trace \o <<Ev("ret_raise", 0, 0), Ev("error", 0, 0)>>
              /\ pc' = "finally"
              /\ UNCHANGED <<segments, result>>
         ELSE /\ Emit(Ev("ret_ok", nseg, 0))
              /\ segments' = nseg
              /\ result' = <<>>
              /\ pc' = "ts_loop"
    /\ UNCHANGED <<i, trLocals, exLocals, notWorker>>

\* `for i, seg in enumerate(segments, start=1)`: one iteration, or the code after the loop
TsLoop ==
    /\ kind = "transcribe" /\ pc = "ts_loop"
    /\ LET k     == Len(result) + 1
           total == IF segments = 0 THEN 1 ELSE segments
       IN IF k <= segments
            THEN /\ result' = Append(result,
                                Caption(k, Segment(k).start, Segment(k).end, Segment(k).text, 0, 0))
                 /\ Emit(Ev("progress", 20 + (k * 75) \div total, 0))
                 /\ pc' = "ts_loop"
            ELSE /\ trace' = trace \o <<Ev("progress", 100, 0), Ev("captions_ready", Len(result), 0)>>
                 /\ pc' = "finally"
                 /\ UNCHANGED result
    /\ UNCHANGED <<i, segments, trLocals, exLocals, notWorker>>

\* ----- ExportWorker.run and export_video
TmpMix  == 1     \* the path tempfile.mkstemp(suffix="_tts_mix.wav") returns
SrtFile == 2     \* os.path.splitext(output_video_path)[0] + ".srt"
OutFile == 3     \* output_video_path

\* the lambda of ExportWorker.run: 5 + int(pct * 0.95)
WorkerPct(pct) == 5 + (pct * 95) \div 100

\* progress_callback(pct): the worker's lambda emits progress
Callback(pct) == Ev("progress", WorkerPct(pct), 0)

\* cap.tts_audio_path and os.path.exists(cap.tts_audio_path)
Present(cap) == cap.tts_audio_path # 0 /\ cap.tts_audio_path \in files

\* mutant: the fraction elapsed / duration is not capped at 1.0
EncodePct_NoMin(base_pct, elapsed, dur) ==
    LET span_pct == 100 - base_pct
    IN base_pct + (elapsed * span_pct * 99) \div (dur * 100)

\* base_pct + int(min(elapsed / duration, 1.0) * span_pct * 0.99)
EncodePct(base_pct, elapsed, dur) ==
    LET span_pct == 100 - base_pct
        m        == IF elapsed < dur THEN elapsed ELSE dur
    IN base_pct + (m * span_pct * 99) \div (dur * 100)

\* mutant: the first checkpoint is missing
ExStart_NoCheck ==
    /\ kind = "export" /\ pc = "start"
    /\ pc' = "ex_srt"
    /\ UNCHANGED <<i, trace, trLocals, tsLocals, exLocals, notWorker>>

\* first checkpoint of ExportWorker.run
ExStart ==
    /\ kind = "export" /\ pc = "start"
    /\ pc' = IF cancelled THEN "finally" ELSE "ex_srt"
    /\ UNCHANGED <<i, trace, trLocals, tsLocals, exLocals, notWorker>>

\* mutant: a failure of write_srt is reported and the export goes on
ExSrt_GoOn(ok) ==
    /\ kind = "export" /\ pc = "ex_srt"
    /\ trace' = trace \o <<Ev("call_write_srt", 0, 0), Ev(IF ok THEN "progress" ELSE "error", 5, 0)>>
    /\ files' = IF ok THEN files \cup {SrtFile} ELSE files
    /\ pc' = "ex_check"
    /\ UNCHANGED <<i, trLocals, tsLocals, duration, has_tts, tmp_tts_path, use_nvenc,
                   stderr_lines, NVENC_AVAILABLE, notWorker>>

\* write_srt(...) writes the sidecar file or raises; then progress 5
ExSrt(ok) ==
    /\ kind = "export" /\ pc = "ex_srt"
    /\ IF ok THEN /\ trace' = trace \o <<Ev("call_write_srt", 0, 0), Ev("progress", 5, 0)>>
                  /\ files' = files \cup {SrtFile}
                  /\ pc' = "ex_check"
             ELSE /\ trace' = trace \o <<Ev("call_write_srt", 0, 0), Ev("error", 0, 0)>>
                  /\ pc' = "finally"
                  /\ UNCHANGED files
    /\ UNCHANGED <<i, trLocals, tsLocals, duration, has_tts, tmp_tts_path, use_nvenc,
                   stderr_lines, NVENC_AVAILABLE, notWorker>>

\* second checkpoint, before export_video is called
ExCheck ==
    /\ kind = "export" /\ pc = "ex_check"
    /\ pc' = IF cancelled THEN "finally" ELSE "ev_probe"
    /\ UNCHANGED <<i, trace, trLocals, tsLocals, exLocals, notWorker>>

\* what `ffmpeg -hide_banner -encoders` can do when _detect_nvenc runs it: list
\* h264_nvenc, not list it, or fail (ffmpeg missing, timeout, any exception)
QueryOutcomes == {"listed", "not_listed", "raises"}

\* how the query ended, as the trace records it: it returned (x = 1: h264_nvenc is in
\* its output) or it raised
QueryReturn(q) == IF q = "raises" THEN Ev("ret_raise", 0, 0)
                  ELSE Ev("ret_ok", 0, IF q = "listed" THEN 1 ELSE 0)

\* mutant: a failed query counts as a hardware encoder
DetectNvenc_Optimistic(q) == q # "not_listed"

\* _detect_nvenc(): `"h264_nvenc" in result.stdout`, and False in the `except`
DetectNvenc(q) == q = "listed"

\* mutant: _nvenc_available() without the cache test
EvProbe_NoCache(dur, q) ==
    /\ kind = "export" /\ pc = "ev_probe"
    /\ dur >= 0 /\ q \in QueryOutcomes
    /\ duration' = dur
    /\ NVENC_AVAILABLE' = IF DetectNvenc(q) THEN "True" ELSE "False"
    /\ trace' = trace \o <<Ev("call_probe", 0, 0), Ev("call_detect_nvenc", 0, 0),
                           QueryReturn(q)>>
    /\ use_nvenc' = DetectNvenc(q)
    /\ pc' = "ev_pass1"
    /\ UNCHANGED <<i, trLocals, tsLocals, has_tts, tmp_tts_path, stderr_lines, files, notWorker>>

\* export_video: get_video_duration (ffmpeg.probe returns dur, or raises when dur = -1),
\* then _nvenc_available(), which runs _detect_nvenc with query outcome q only while the
\* cache is None (q = "none": no query is run)
EvProbe(dur, q) ==
    /\ kind = "export" /\ pc = "ev_probe"
    /\ IF dur < 0
         THEN /\ q = "none"
              /\ trace' = trace \o <<Ev("call_probe", 0, 0), Ev("error", 0, 0)>>
              /\ pc' = "finally"
              /\ UNCHANGED <<duration, use_nvenc, NVENC_AVAILABLE>>
         ELSE /\ duration' = dur
              /\ IF NVENC_AVAILABLE = "None"
                   THEN /\ q \in QueryOutcomes
                        /\ NVENC_AVAILABLE' = IF DetectNvenc(q) THEN "True" ELSE "False"
                        /\ trace' = trace \o <<Ev("call_probe", 0, 0),
                                               Ev("call_detect_nvenc", 0, 0),
                                               QueryReturn(q)>>
                   ELSE /\ q = "none"
                        /\ trace' = Append(trace, Ev("call_probe", 0, 0))
                        /\ UNCHANGED NVENC_AVAILABLE
              /\ use_nvenc' = (NVENC_AVAILABLE' = "True")
              /\ pc' = "ev_pass1"
    /\ UNCHANGED <<i, trLocals, tsLocals, has_tts, tmp_tts_path, stderr_lines, files, notWorker>>

\* mutant: pass 1 runs whether or not a clip is present
EvPass1_Always ==
    /\ kind = "export" /\ pc = "ev_pass1"
    /\ has_tts' = TRUE
    /\ tmp_tts_path' = TmpMix
    /\ files' = files \cup {TmpMix}
    /\ trace' = trace \o <<Ev("progress", 14, 0), Ev("call_pre_mix", 0, 0)>>
    /\ pc' = "ev_premix"
    /\ UNCHANGED <<i, trLocals, tsLocals, duration, use_nvenc, stderr_lines,
                   NVENC_AVAILABLE, notWorker>>

\* pass 1, up to the call of _pre_mix_tts_audio
EvPass1 ==
    /\ kind = "export" /\ pc = "ev_pass1"
    /\ LET any == \E p \in Positions(captions) : Present(captions[p])
       IN /\ has_tts' = any
          /\ IF any
               THEN /\ tmp_tts_path' = TmpMix
                    /\ files' = files \cup {TmpMix}
                    /\ trace' = trace \o <<Callback(10), Ev("call_pre_mix", 0, 0)>>
                    /\ pc' = "ev_premix"
               ELSE /\ tmp_tts_path' = 0
                    /\ pc' = "ev_run"
                    /\ UNCHANGED <<files, trace>>
    /\ UNCHANGED <<i, trLocals, tsLocals, duration, use_nvenc, stderr_lines,
                   NVENC_AVAILABLE, notWorker>>

\* mutant: the failure of the pre-mix pass is passed on to the caller
EvPreMix_Fatal(ok) ==
    /\ kind = "export" /\ pc = "ev_premix"
    /\ IF ok THEN /\ trace' = trace \o <<Ev("ret_ok", 0, 0), Ev("progress", 33, 0)>>
                  /\ pc' = "ev_run"
             ELSE /\ trace' = trace \o <<Ev("ret_raise", 0, 0), Ev("error", 0, 0)>>
                  /\ pc' = "finally"
    /\ UNCHANGED <<i, trLocals, tsLocals, duration, has_tts, tmp_tts_path, use_nvenc,
                   stderr_lines, NVENC_AVAILABLE, files, notWorker>>

\* _pre_mix_tts_audio returns or raises (ffmpeg exit code, or any exception); the
\* `except` forgets the path; then progress_callback(30)
EvPreMix(ok) ==
    /\ kind = "export" /\ pc = "ev_premix"
    /\ tmp_tts_path' = IF ok THEN tmp_tts_path ELSE 0
    /\ trace' = trace \o <<Ev(IF ok THEN "ret_ok" ELSE "ret_raise", 0, 0), Callback(30)>>
    /\ pc' = "ev_run"
    /\ UNCHANGED <<i, trLocals, tsLocals, duration, has_tts, use_nvenc, stderr_lines,
                   NVENC_AVAILABLE, files, notWorker>>

\* the `finally` of export_video
Cleanup(path, fs) == IF path # 0 /\ path \in fs THEN fs \ {path} ELSE fs

\* the audio inputs of the final mix: 2 when the pre-mixed track is there, else 1
AudioInputs == IF tmp_tts_path # 0 /\ tmp_tts_path \in files THEN 2 ELSE 1

\* MainWindow._on_export_clicked constructs the worker with mute_during_captions=True
mute_during_captions == TRUE

\* the segments in whose window the filter graph sets the original audio to volume 0
\* (`if mute_during_captions and has_tts`, then every caption with a present file)
MutedWindows ==
    IF mute_during_captions /\ has_tts
      THEN {p \in Positions(captions) : Present(captions[p])}
      ELSE {}

\* pass 2: out.run_async(pipe_stderr=True) starts the encoder, or raises.  The call is
\* recorded with the number of audio inputs and the codec path (1: hwaccel=cuda and
\* h264_nvenc, 0: software decode and libx264)
EvRun(ok) ==
    /\ kind = "export" /\ pc = "ev_run"
    /\ LET call == Ev("call_encode", AudioInputs, IF use_nvenc THEN 1 ELSE 0)
       IN IF ok THEN /\ Emit(call)
                     /\ stderr_lines' = 0
                     /\ i' = 0
                     /\ pc' = "ev_lines"
                     /\ UNCHANGED files
                ELSE /\ trace' = trace \o <<call, Ev("ret_raise", 0, 0), Ev("error", 0, 0)>>
                     /\ files' = Cleanup(tmp_tts_path, files)
                     /\ pc' = "finally"
                     /\ UNCHANGED <<i, stderr_lines>>
    /\ UNCHANGED <<trLocals, tsLocals, duration, has_tts, tmp_tts_path, use_nvenc,
                   NVENC_AVAILABLE, notWorker>>

\* one line of the encoder's stderr; elapsed >= 0: the value of its time= marker,
\* -1: a line without marker, -2: a line that is empty after rstrip() (not kept)
EvLine(elapsed) ==
    /\ kind = "export" /\ pc = "ev_lines"
    /\ i < MaxLines
    /\ i' = i + 1
    /\ stderr_lines' = IF elapsed = -2 THEN stderr_lines ELSE stderr_lines + 1
    /\ IF elapsed >= 0 /\ duration # 0
         THEN Emit(Callback(EncodePct(IF has_tts THEN 30 ELSE 5, elapsed, duration)))
         ELSE UNCHANGED trace
    /\ pc' = "ev_lines"
    /\ UNCHANGED <<trLocals, tsLocals, duration, has_tts, tmp_tts_path, use_nvenc,
                   NVENC_AVAILABLE, files, notWorker>>

\* "\n".join(stderr_lines[-20:]): the number of lines the message carries
StderrTail(n) == IF n > TAIL_LINES THEN TAIL_LINES ELSE n

\* mutant: the exit code is not looked at
EvExit_AnyCode(returncode) ==
    /\ kind = "export" /\ pc = "ev_lines"
    /\ trace' = trace \o <<Ev("exit", returncode, 0), Ev("progress", 100, 0), Ev("done", 0, 0)>>
    /\ files' = (files \ {tmp_tts_path}) \cup {OutFile}
    /\ pc' = "finally"
    /\ UNCHANGED <<i, trLocals, tsLocals, duration, has_tts, tmp_tts_path, use_nvenc,
                   stderr_lines, NVENC_AVAILABLE, notWorker>>

\* mutant: the failure is reported and the success path is taken all the same
EvExit_ErrorThenDone(returncode) ==
    /\ kind = "export" /\ pc = "ev_lines"
    /\ trace' = trace \o (IF returncode # 0
                            THEN <<Ev("exit", returncode, 0), Ev("error", returncode, 0),
                                   Ev("done", 0, 0)>>
                            ELSE <<Ev("exit", 0, 0), Ev("progress", 100, 0), Ev("done", 0, 0)>>)
    /\ files' = (files \ {tmp_tts_path}) \cup {OutFile}
    /\ pc' = "finally"
    /\ UNCHANGED <<i, trLocals, tsLocals, duration, has_tts, tmp_tts_path, use_nvenc,
                   stderr_lines, NVENC_AVAILABLE, notWorker>>

\* stderr is closed and process.wait() returns the exit code: a non-zero code raises
\* RuntimeError(code, tail), which ExportWorker.run emits as `error`; code 0 is
\* followed by progress_callback(100) and, back in the worker, by `done`
EvExit(returncode) ==
    /\ kind = "export" /\ pc = "ev_lines"
    /\ IF returncode # 0
         THEN trace' = trace \o <<Ev("exit", returncode, 0),
                                  Ev("error", returncode, StderrTail(stderr_lines))>>
         ELSE trace' = trace \o <<Ev("exit", 0, 0), Callback(100), Ev("done", 0, 0)>>
    /\ files' = IF returncode = 0 THEN Cleanup(tmp_tts_path, files) \cup {OutFile}
                ELSE Cleanup(tmp_tts_path, files)
    /\ pc' = "finally"
    /\ UNCHANGED <<i, trLocals, tsLocals, duration, has_tts, tmp_tts_path, use_nvenc,
                   stderr_lines, NVENC_AVAILABLE, notWorker>>

\* ----- _build_atempo_chain(audio_node, speed)
\* `if speed == 1.0: return audio_node`, else `filters = []; remaining = speed`
AtStart ==
    /\ fpc = "at_start"
    /\ IF speed = 100
         THEN /\ fpc' = "at_done"
              /\ UNCHANGED <<remaining, filters>>
         ELSE /\ remaining' = speed * 10
              /\ filters' = <<>>
              /\ fpc' = "at_halve"
    /\ UNCHANGED <<speed, kind, captions, pc, i, trLocals, tsLocals, exLocals, cancelled,
                   trace, history, coordVars, fnArgs, appVars>>

\* mutant: the limit of a single atempo filter taken to be 4.0
AtHalve_Limit4 ==
    /\ fpc = "at_halve"
    /\ IF remaining > 4000
         THEN /\ filters' = Append(filters, 2000)
              /\ remaining' = remaining \div 2
              /\ fpc' = "at_halve"
         ELSE /\ fpc' = "at_double"
              /\ UNCHANGED <<remaining, filters>>
    /\ UNCHANGED <<speed, kind, captions, pc, i, trLocals, tsLocals, exLocals, cancelled,
                   trace, history, coordVars, fnArgs, appVars>>

\* `while remaining > 2.0: filters.append(2.0); remaining /= 2.0`
AtHalve ==
    /\ fpc = "at_halve"
    /\ IF remaining > 2000
         THEN /\ filters' = Append(filters, 2000)
              /\ remaining' = remaining \div 2
              /\ fpc' = "at_halve"
         ELSE /\ fpc' = "at_double"
              /\ UNCHANGED <<remaining, filters>>
    /\ UNCHANGED <<speed, kind, captions, pc, i, trLocals, tsLocals, exLocals, cancelled,
                   trace, history, coordVars, fnArgs, appVars>>

\* `while remaining < 0.5: filters.append(0.5); remaining /= 0.5`, then
\* `filters.append(remaining)`; every entry of filters becomes one atempo filter
AtDouble ==
    /\ fpc = "at_double"
    /\ IF remaining < 500
         THEN /\ filters' = Append(filters, 500)
              /\ remaining' = remaining * 2
              /\ fpc' = "at_double"
         ELSE /\ filters' = Append(filters, remaining)
              /\ fpc' = "at_done"
              /\ UNCHANGED remaining
    /\ UNCHANGED <<speed, kind, captions, pc, i, trLocals, tsLocals, exLocals, cancelled,
                   trace, history, coordVars, fnArgs, appVars>>

\* ----- srt_utils.write_srt, on a caption list whose times are whole milliseconds
\* seconds_to_ts(seconds) for seconds >= 0 (it asserts that): ms = round(seconds * 1000)
\* is split into hours, minutes, seconds and milliseconds, printed HH:MM:SS,mmm
seconds_to_ts(t) ==
    LET h  == t \div 3600000
        r1 == t - h * 3600000
        m  == r1 \div 60000
        r2 == r1 - m * 60000
        s  == r2 \div 1000
    IN [h |-> h, m |-> m, s |-> s, ms |-> r2 - s * 1000]

\* mutant: the blocks carry the index of the caption, not its position
write_srt_ByIndex(caps, use_khmer) ==
    [p \in Positions(caps) |->
        [num   |-> caps[p].index,
         start |-> seconds_to_ts(caps[p].start),
         end   |-> seconds_to_ts(caps[p].end),
         text  |-> IF use_khmer /\ caps[p].khmer_text # 0 THEN caps[p].khmer_text
                   ELSE caps[p].original_text]]

\* the blocks write_srt writes: `for i, cap in enumerate(captions, start=1)`,
\* text = (cap.khmer_text or cap.original_text) if use_khmer else cap.original_text
write_srt(caps, use_khmer) ==
    [p \in Positions(caps) |->
        [num   |-> p,
         start |-> seconds_to_ts(caps[p].start),
         end   |-> seconds_to_ts(caps[p].end),
         text  |-> IF use_khmer /\ caps[p].khmer_text # 0 THEN caps[p].khmer_text
                   ELSE caps[p].original_text]]

\* ExportWorker.run: write_srt(self._captions, srt_path, use_khmer=True)
SrtWrite ==
    /\ fpc = "srt_start"
    /\ fn_out' = write_srt(fn_captions, TRUE)
    /\ fpc' = "srt_done"
    /\ UNCHANGED <<fn_captions, speed, remaining, filters, kind, captions, pc, i, trLocals,
                   tsLocals, exLocals, cancelled, trace, history, coordVars, appVars>>

\* ----- the delays of _pre_mix_tts_audio, on a caption list whose times are tenths of a ms
\* mutant: the offset is added without the floor at 0
effective_start_NoFloor(cap) == cap.start + cap.offset

\* Caption.effective_start: max(0.0, self.start + self.offset)
effective_start(cap) == IF cap.start + cap.offset > 0 THEN cap.start + cap.offset ELSE 0

\* delay_ms = int(cap.effective_start * 1000): whole milliseconds, truncated.  The
\* product is a binary floating-point number, and for a time that is a whole number
\* of ms it may lie just below it (int(1.001 * 1000) = 1000): loss = 1
delay_ms(cap, loss) ==
    LET t == effective_start(cap) \div 10
    IN IF loss = 1 /\ effective_start(cap) % 10 = 0 /\ t > 0 THEN t - 1 ELSE t

\* the audio streams _pre_mix_tts_audio builds from position p on: one per caption
\* whose clip is present, with the atempo chain of its speed and, `if delay_ms > 0`,
\* an adelay filter of delay_ms (adelay = 0: no such filter)
RECURSIVE audio_streams(_, _, _)
audio_streams(caps, loss, p) ==
    IF p > Len(caps) THEN <<>>
    ELSE LET cap == caps[p]
             d   == delay_ms(cap, loss[p])
         IN (IF Present(cap)
               THEN <<[input |-> cap.tts_audio_path, atempo |-> cap.speed,
                       adelay |-> IF d > 0 THEN d ELSE 0]>>
               ELSE <<>>) \o audio_streams(caps, loss, p + 1)

\* export_video: _pre_mix_tts_audio(captions, duration, tmp_tts_path), up to the
\* filter graph it hands to ffmpeg
PreMixBuild ==
    /\ fpc = "pm_start"
    /\ \E loss \in [Positions(fn_captions) -> {0, 1}] :
          fn_out' = audio_streams(fn_captions, loss, 1)
    /\ fpc' = "pm_done"
    /\ UNCHANGED <<fn_captions, speed, remaining, filters, kind, captions, pc, i, trLocals,
                   tsLocals, exLocals, cancelled, trace, history, coordVars, appVars>>

\* mutant: finished.emit() at the end of the `try` body, not in `finally`
Finally_NotOnError ==
    /\ pc = "finally"
    /\ IF \E p \in 1..Len(trace) : trace[p].ev = "error"
         THEN UNCHANGED trace
         ELSE Emit(Ev("finished", 0, 0))
    /\ pc' = "done"
    /\ UNCHANGED <<i, trLocals, tsLocals, exLocals, notWorker>>

\* ----- the `finally: self.finished.emit()` every run() ends with
Finally ==
    /\ pc = "finally"
    /\ Emit(Ev("finished", 0, 0))
    /\ pc' = "done"
    /\ UNCHANGED <<i, trLocals, tsLocals, exLocals, notWorker>>

\* ------------------------------------------------------------ the coordinator
\* MainWindow._set_busy(busy, label), on the fields the model keeps
SetBusy(b, label) ==
    /\ busy' = b
    /\ status' = [msg |-> IF label # "" THEN label ELSE IF b THEN "Working" ELSE "Ready.",
                  n |-> 0]
    /\ cancel_enabled' = b

\* CaptionTable.update_khmer_text: the first caption carrying the index gets the text
FirstWithIndex(caps, idx) ==
    IF \E p \in Positions(caps) : caps[p].index = idx
      THEN CHOOSE p \in Positions(caps) :
             /\ caps[p].index = idx
             /\ \A q \in 1..(p - 1) : caps[q].index # idx
      ELSE 0

update_khmer_text(caps, idx, text) ==
    [p \in Positions(caps) |->
        IF p = FirstWithIndex(caps, idx) THEN [caps[p] EXCEPT !.khmer_text = text] ELSE caps[p]]

\* mutant: the row is rebuilt from the caption as it was created, then the path is set
update_tts_path_Rebuild(caps, idx, path) ==
    [p \in Positions(caps) |->
        IF p = FirstWithIndex(caps, idx)
          THEN [caps[p] EXCEPT !.tts_audio_path = path, !.speed = 100, !.offset = 0]
          ELSE [caps[p] EXCEPT !.tts_audio_path = 0]]

\* CaptionTable.update_tts_path
update_tts_path(caps, idx, path) ==
    [p \in Positions(caps) |->
        IF p = FirstWithIndex(caps, idx) THEN [caps[p] EXCEPT !.tts_audio_path = path] ELSE caps[p]]

\* mutant: the new captions are added to the ones in the table
load_captions_Extend(old, new) == old \o new

\* CaptionTable.load_captions: self._captions = list(captions)
load_captions(old, new) == new

\* position of the oldest signal in the trace after position p (0: none)
RECURSIVE SignalAfter(_)
SignalAfter(p) ==
    IF p >= Len(trace) THEN 0
    ELSE IF IsSignal(trace[p + 1]) THEN p + 1
    ELSE SignalAfter(p + 1)

\* position of the oldest signal the event loop has not delivered yet (0: none)
NextSignal == SignalAfter(delivered)

\* MainWindow._on_worker_finished(success_msg)
OnWorkerFinished(success_msg) ==
    /\ was_cancelled' = FALSE
    /\ SetBusy(FALSE, IF was_cancelled THEN "Cancelled." ELSE success_msg)
    /\ UNCHANGED <<captions, translate_skipped, progress_bar, dialogs>>

\* mutant: the counter is set, not incremented
OnCaptionSkipped_Set ==
    /\ translate_skipped' = 1
    /\ status' = [msg |-> "Translating", n |-> 1]
    /\ UNCHANGED <<captions, busy, was_cancelled, cancel_enabled, progress_bar, dialogs>>

\* MainWindow._on_caption_skipped
OnCaptionSkipped ==
    /\ translate_skipped' = translate_skipped + 1
    /\ status' = [msg |-> "Translating", n |-> translate_skipped + 1]
    /\ UNCHANGED <<captions, busy, was_cancelled, cancel_enabled, progress_bar, dialogs>>

\* MainWindow._on_translate_finished
OnTranslateFinished ==
    /\ was_cancelled' = FALSE
    /\ busy' = FALSE
    /\ cancel_enabled' = FALSE
    /\ status' = IF was_cancelled THEN [msg |-> "Cancelled.", n |-> 0]
                 ELSE [msg |-> "Translation complete.", n |-> translate_skipped]
    /\ translate_skipped' = 0
    /\ UNCHANGED <<captions, progress_bar, dialogs>>

\* the event loop of the main thread runs the slots connected to the next signal
Deliver ==
    /\ delivered < Len(trace)
    /\ NextSignal # 0
    /\ delivered' = NextSignal
    /\ LET e == trace[NextSignal]
       IN CASE e.ev = "progress" ->
                 /\ progress_bar' = e.n
                 /\ UNCHANGED <<captions, busy, was_cancelled, cancel_enabled,
                                translate_skipped, status, dialogs>>
            [] e.ev = "caption_translated" ->
                 /\ captions' = update_khmer_text(captions, e.n, e.x)
                 /\ UNCHANGED <<busy, was_cancelled, cancel_enabled, translate_skipped,
                                status, progress_bar, dialogs>>
            [] e.ev = "caption_skipped" -> OnCaptionSkipped
            [] e.ev = "caption_audio_ready" ->
                 /\ captions' = update_tts_path(captions, e.n, e.x)
                 /\ UNCHANGED <<busy, was_cancelled, cancel_enabled, translate_skipped,
                                status, progress_bar, dialogs>>
            [] e.ev = "captions_ready" ->           \* _on_captions_ready
                 /\ captions' = load_captions(captions, result)
                 /\ status' = [msg |-> "Transcription complete", n |-> Len(result)]
                 /\ UNCHANGED <<busy, was_cancelled, cancel_enabled, translate_skipped,
                                progress_bar, dialogs>>
            [] e.ev = "done" ->                     \* _on_export_finished
                 /\ SetBusy(FALSE, "")
                 /\ dialogs' = Append(dialogs, "export_complete")
                 /\ UNCHANGED <<captions, was_cancelled, translate_skipped, progress_bar>>
            [] e.ev = "error" ->                    \* _on_worker_error
                 /\ SetBusy(FALSE, "")
                 /\ dialogs' = Append(dialogs, "error")
                 /\ UNCHANGED <<captions, was_cancelled, translate_skipped, progress_bar>>
            [] e.ev = "finished" ->
                 CASE kind = "translate" -> OnTranslateFinished
                   [] kind = "tts"       -> OnWorkerFinished("TTS generation complete.")
                   [] OTHER              -> OnWorkerFinished("")
    /\ UNCHANGED <<kind, pc, i, trLocals, tsLocals, exLocals, cancelled, trace, history,
                   fnLocals, fnArgs, appVars>>

\* one more call of cancel(), counted as 0, 1, "several"
Calls(n) == IF n < 2 THEN n + 1 ELSE 2

\* mutant: cancel() flips the flag
cancel_Toggle ==
    /\ HasCancel(kind)
    /\ cancelled' = ~cancelled
    /\ cancel_calls' = Calls(cancel_calls)
    /\ IF cancelAt < 0
         THEN cancelAt' = Len(trace) /\ cancelPc' = pc /\ cancelI' = i
         ELSE UNCHANGED <<cancelAt, cancelPc, cancelI>>
    /\ UNCHANGED <<kind, captions, captions0, pc, i, trLocals, tsLocals, exLocals, trace,
                   coordVars, fnLocals, fnArgs, appVars>>

\* TranslateWorker.cancel / ExportWorker.cancel, called from any thread at any
\* moment of the job, any number of times: `self._cancelled = True`
cancel ==
    /\ HasCancel(kind)
    /\ cancelled' = TRUE
    /\ cancel_calls' = Calls(cancel_calls)
    /\ IF cancelAt < 0
         THEN cancelAt' = Len(trace) /\ cancelPc' = pc /\ cancelI' = i
         ELSE UNCHANGED <<cancelAt, cancelPc, cancelI>>
    /\ UNCHANGED <<kind, captions, captions0, pc, i, trLocals, tsLocals, exLocals, trace,
                   coordVars, fnLocals, fnArgs, appVars>>

\* MainWindow._on_cancel_clicked: the coordinator's cancel request
OnCancelClicked ==
    /\ cancel_enabled
    /\ was_cancelled' = TRUE
    /\ cancel_enabled' = FALSE
    /\ status' = [msg |-> "Cancelling", n |-> 0]
    /\ cancelled' = IF HasCancel(kind) THEN TRUE ELSE cancelled
    /\ cancel_calls' = IF HasCancel(kind) THEN Calls(cancel_calls) ELSE cancel_calls
    /\ cancelAt' = Len(trace) /\ cancelPc' = pc /\ cancelI' = i
    /\ UNCHANGED <<kind, captions, captions0, pc, i, trLocals, tsLocals, exLocals, trace, delivered,
                   busy, translate_skipped, progress_bar, dialogs, fnLocals, fnArgs, appVars>>

\* ----- the video and its directory of clips
\* MainWindow._load_video(path); isfile: os.path.isfile(path).  tempfile.mkdtemp
\* creates a directory that did not exist
load_video(path, isfile) ==
    /\ ~closed
    /\ IF ~isfile
         THEN /\ Len(dialogs) < MaxLoads
              /\ dialogs' = Append(dialogs, "error")
              /\ UNCHANGED <<captions, status, appVars>>
         ELSE /\ Cardinality(DOMAIN tmp_dirs) < MaxLoads
              /\ LET d == Cardinality(DOMAIN tmp_dirs) + 1
                 IN /\ tts_dir' = d
                    /\ tmp_dirs' = [x \in DOMAIN tmp_dirs \cup {d} |->
                                       IF x = d THEN {} ELSE tmp_dirs[x]]
              /\ video_path' = path
              /\ captions' = <<>>
              /\ status' = [msg |-> "Loaded", n |-> path]
              /\ UNCHANGED <<dialogs, closed, edits>>
    /\ UNCHANGED <<kind, pc, i, trLocals, tsLocals, exLocals, cancelled, trace, history,
                   delivered, busy, was_cancelled, cancel_enabled, translate_skipped,
                   progress_bar, fnLocals, fnArgs>>

\* a Synthesize job writes the clip of segment k into the directory it was given
\* (TTSWorker.run: out_path = os.path.join(self._output_dir, ...))
TtsClip(k) ==
    /\ ~closed /\ tts_dir # 0
    /\ tmp_dirs' = [tmp_dirs EXCEPT ![tts_dir] = @ \cup {OutPath(k)}]
    /\ UNCHANGED <<video_path, tts_dir, closed, edits, kind, captions, pc, i, trLocals, tsLocals,
                   exLocals, cancelled, trace, history, coordVars, fnLocals, fnArgs>>

\* MainWindow.closeEvent: shutil.rmtree(self._tts_dir) if it is set and a directory
closeEvent ==
    /\ ~closed
    /\ closed' = TRUE
    /\ tmp_dirs' = IF tts_dir # 0 /\ tts_dir \in DOMAIN tmp_dirs
                     THEN [x \in DOMAIN tmp_dirs \ {tts_dir} |-> tmp_dirs[x]]
                     ELSE tmp_dirs
    /\ UNCHANGED <<video_path, tts_dir, edits, kind, captions, pc, i, trLocals, tsLocals,
                   exLocals, cancelled, trace, history, coordVars, fnLocals, fnArgs>>

\* ----- the caption table between jobs
\* the columns whose cells _set_row leaves editable
EDITABLE_COLS == {"COL_ORIG", "COL_KHMER", "COL_START", "COL_END", "COL_SPEED", "COL_OFFSET"}

\* mutant: the tempo typed is stored as it is
ClampSpeed_Off(val) == val

\* max(0.25, min(4.0, val)), in hundredths
ClampSpeed(val) ==
    LET m == IF val < MAX_SPEED THEN val ELSE MAX_SPEED
    IN IF m > MIN_SPEED THEN m ELSE MIN_SPEED

\* what the user types into a cell: a column, the value of the text and whether
\* float() accepts the text (the two text columns take any text)
EditInputs ==
    {[col |-> "COL_ORIG",   val |-> 9,    valid |-> TRUE],
     [col |-> "COL_KHMER",  val |-> 0,    valid |-> TRUE],
     [col |-> "COL_START",  val |-> 5,    valid |-> TRUE],
     [col |-> "COL_END",    val |-> 0,    valid |-> TRUE],
     [col |-> "COL_SPEED",  val |-> 10,   valid |-> TRUE],
     [col |-> "COL_SPEED",  val |-> 1000, valid |-> TRUE],
     [col |-> "COL_SPEED",  val |-> 0,    valid |-> FALSE],
     [col |-> "COL_OFFSET", val |-> -1,   valid |-> TRUE]}

\* CaptionTable._on_item_changed(item): row is item.row() + 1, the cell is one
\* the user can edit; float(text) raising ValueError keeps the old value
on_item_changed(row, col, val, valid) ==
    /\ ~closed /\ edits < MaxEdits
    /\ col \in EDITABLE_COLS
    /\ row \in 1..Len(captions)
    /\ edits' = edits + 1
    /\ captions' = [captions EXCEPT ![row] =
         CASE col = "COL_ORIG"   -> [@ EXCEPT !.original_text = val]
           [] col = "COL_KHMER"  -> [@ EXCEPT !.khmer_text = val]
           [] col = "COL_START"  -> IF valid THEN [@ EXCEPT !.start = val] ELSE @
           [] col = "COL_END"    -> IF valid THEN [@ EXCEPT !.end = val] ELSE @
           [] col = "COL_SPEED"  -> IF valid THEN [@ EXCEPT !.speed = ClampSpeed(val)] ELSE @
           [] col = "COL_OFFSET" -> IF valid THEN [@ EXCEPT !.offset = val] ELSE @
           [] OTHER              -> @]
    /\ UNCHANGED <<video_path, tts_dir, tmp_dirs, closed, kind, pc, i, trLocals, tsLocals,
                   exLocals, cancelled, trace, history, coordVars, fnLocals, fnArgs>>

\* mutant: every caption of the result gets the index 1
Transcription_SameIndex(n) ==
    [k \in 1..n |-> Caption(1, Segment(k).start, Segment(k).end, Segment(k).text, 0, 0)]

\* the list TranscribeWorker.run builds from n segments: enumerate(segments, start=1)
Transcription(n) ==
    [k \in 1..n |-> Caption(k, Segment(k).start, Segment(k).end, Segment(k).text, 0, 0)]

\* MainWindow._on_captions_ready(captions), with the result of a transcription of
\* n segments
on_captions_ready(n) ==
    /\ ~closed /\ video_path # 0
    /\ captions' = load_captions(captions, Transcription(n))
    /\ status' = [msg |-> "Transcription complete", n |-> n]
    /\ UNCHANGED <<kind, pc, i, trLocals, tsLocals, exLocals, cancelled, trace, history,
                   delivered, busy, was_cancelled, cancel_enabled, translate_skipped,
                   progress_bar, dialogs, fnLocals, fnArgs, appVars>>

\* the slot of caption_translated, called by a Translate job for the segment idx
on_caption_translated(idx) ==
    /\ ~closed
    /\ captions' = update_khmer_text(captions, idx, Translation(idx))
    /\ UNCHANGED <<kind, pc, i, trLocals, tsLocals, exLocals, cancelled, trace, history,
                   coordVars, fnLocals, fnArgs, appVars>>

\* the slot of caption_audio_ready, called by a Synthesize job for the segment idx
on_caption_audio_ready(idx) ==
    /\ ~closed
    /\ captions' = update_tts_path(captions, idx, OutPath(idx))
    /\ UNCHANGED <<kind, pc, i, trLocals, tsLocals, exLocals, cancelled, trace, history,
                   coordVars, fnLocals, fnArgs, appVars>>

\* ----- the handlers of the job buttons
\* the parameters of TranscribeWorker.__init__(self, video_path, model_name="auto")
TranscribeWorkerParams == {"video_path", "model_name"}

\* what a LoadingDialog has: the methods of the class and those of QDialog the
\* handlers use
LoadingDialogAttrs == {"set_progress", "set_message", "close", "show"}

\* the constructor call of the handler returns a worker: _on_transcribe_clicked
\* passes model_name= and language=, the other handlers pass what the class takes
Constructed(k) ==
    k = "transcribe" => {"model_name", "language"} \subseteq TranscribeWorkerParams

\* the handler gets past self._loading_dlg.cancel_requested.connect(...)
Wired(k) == Constructed(k) /\ "cancel_requested" \in LoadingDialogAttrs

\* the status text the handler passes to _set_busy
JobLabel(k) ==
    CASE k = "transcribe" -> "Transcribing"
      [] k = "translate"  -> "Translating captions"
      [] k = "tts"        -> "Generating"
      [] OTHER            -> "Exporting"

\* MainWindow._on_transcribe_clicked / _on_translate_clicked / _on_tts_clicked /
\* _on_export_clicked.  The buttons are enabled while not busy; an exception raised
\* inside the slot ends the slot, with what it has done so far left in place
on_job_clicked(k) ==
    /\ ~closed /\ ~busy
    /\ k \in {"transcribe", "export"} => video_path # 0
    /\ k # "transcribe" => captions # <<>>
    /\ SetBusy(TRUE, JobLabel(k))
    /\ progress_bar' = 0
    /\ translate_skipped' = IF k = "translate" /\ Constructed(k) THEN 0 ELSE translate_skipped
    /\ IF Wired(k) THEN /\ kind' = k /\ pc' = "start"       \* _start_worker
                         /\ captions0' = captions
                    ELSE UNCHANGED <<kind, pc, captions0>>
    /\ UNCHANGED <<captions, i, trLocals, tsLocals, exLocals, cancelled, trace, cancelAt,
                   cancelPc, cancelI, cancel_calls, delivered, was_cancelled, dialogs,
                   fnLocals, fnArgs, appVars>>

\* ------------------------------------------------------------------- the job
\* the timelines a job of each kind is explored with: segment k lasts from 2k-2 to
\* 2k-1 seconds and has source text k.  A Translate job finds Khmer text of an earlier
\* run in the odd rows, a Synthesize job finds any mix of segments with and without
\* Khmer text, an Export job finds an audio path in the odd rows, a Transcribe job
\* finds the translated and partly synthesized timeline of an earlier transcription.
InitCaption(k, km, tts) == Caption(k, 2 * k - 2, 2 * k - 1, k, km, tts)

KhmerColumns(k, n) ==
    IF k = "translate" THEN {[p \in 1..n |-> IF p % 2 = 1 THEN 200 ELSE 0]}
    ELSE IF k = "tts" THEN [1..n -> {0, 100}]
    ELSE IF k = "export" THEN {[p \in 1..n |-> 100]}
    ELSE {[p \in 1..n |-> 200]}

Timelines(k) ==
    UNION { { [p \in 1..n |-> InitCaption(p, km[p], IF tts[p] THEN OutPath(p) ELSE 0)] :
                km  \in KhmerColumns(k, n),
                tts \in {[p \in 1..n |-> k \in {"export", "transcribe"} /\ p % 2 = 1]} }
            : n \in 0..MaxSegs }

\* the audio files on disk when the job starts: all that the timeline names, or none
\* of them (the directory of the clips was removed)
InitFiles(caps) ==
    LET named == {caps[p].tts_audio_path : p \in {q \in Positions(caps) :
                                                   caps[q].tts_audio_path # 0}}
    IN {named, {}}

\* a job of one of the kinds in K has been set up and its thread started
JobInit(K) ==
    /\ kind \in K
    /\ captions \in Timelines(kind)
    /\ files \in InitFiles(captions)
    /\ NVENC_AVAILABLE \in IF kind = "export" THEN {"None", "True", "False"} ELSE {"None"}
    /\ pc = "start" /\ i = 0 /\ attempt = 0 /\ translated = 0
    /\ cancelled = FALSE /\ trace = <<>>
    /\ cancelAt = -1 /\ cancelPc = "" /\ cancelI = 0 /\ captions0 = captions
    /\ cancel_calls = 0
    /\ segments = 0 /\ result = <<>>
    /\ duration = 0 /\ has_tts = FALSE /\ tmp_tts_path = 0 /\ use_nvenc = FALSE
    /\ stderr_lines = 0
    /\ delivered = 0 /\ busy = TRUE /\ was_cancelled = FALSE /\ cancel_enabled = TRUE
    /\ translate_skipped = 0 /\ status = [msg |-> "Working", n |-> 0]
    /\ progress_bar = 0 /\ dialogs = <<>>
    /\ speed = 100 /\ remaining = 0 /\ filters = <<>> /\ fpc = ""
    /\ fn_captions = <<>> /\ fn_out = <<>>
    /\ video_path = 1 /\ tts_dir = 1 /\ tmp_dirs = [d \in {1} |-> {}] /\ closed = FALSE
    /\ edits = 0

Durations == {0, 2}      \* video durations (s) explored; 0: the container states none
Elapsed   == {1, 3}      \* values (s) of the time= marker of a diagnostic line

\* the external service may fail again
MayFail == Count(trace, {"ret_empty", "ret_raise"}) < MaxFails

Init == JobInit(Kinds)

\* the steps of the two threads that are common to all jobs
Common == Finally \/ Deliver \/ OnCancelClicked

NextTranslate ==
    \/ TrStart \/ TrLoop \/ TrCall
    \/ \E o \in {"ret_ok", "ret_empty", "ret_raise"} :
          pc = "tr_wait" /\ (o = "ret_ok" \/ MayFail) /\ TrReturn(o)
    \/ TrEmit

NextTts ==
    \/ \E ok \in BOOLEAN : TtsStart(ok)
    \/ TtsLoop \/ TtsCall
    \/ \E ok \in BOOLEAN : pc = "tts_wait" /\ (ok \/ MayFail) /\ TtsReturn(ok)
    \/ TtsEmit

NextTranscribe ==
    \/ \E ok \in BOOLEAN : TsStart(ok)
    \/ \E ok \in BOOLEAN : TsLoad(ok)
    \/ TsCall
    \/ \E n \in -1..MaxSegs : TsReturn(n)
    \/ TsLoop

NextExport ==
    \/ ExStart
    \/ \E ok \in BOOLEAN : ExSrt(ok)
    \/ ExCheck
    \/ \E d \in Durations \cup {-1}, q \in QueryOutcomes \cup {"none"} : EvProbe(d, q)
    \/ EvPass1
    \/ \E ok \in BOOLEAN : EvPreMix(ok)
    \/ \E ok \in BOOLEAN : EvRun(ok)
    \/ \E e \in Elapsed \cup {-1, -2} : EvLine(e)
    \/ \E rc \in {0, 1} : EvExit(rc)

Next == NextTranslate \/ NextTts \/ NextTranscribe \/ NextExport \/ Common

\* a job of any kind
Spec == Init /\ [][Next]_vars

\* a Translate job, a Synthesize job, an Export job
SpecTranslate == JobInit({"translate"}) /\ [][NextTranslate \/ Common]_vars
SpecTts       == JobInit({"tts"}) /\ [][NextTts \/ Common]_vars
SpecExport    == JobInit({"export"}) /\ [][NextExport \/ Common]_vars

\* a Transcribe job
SpecTranscribe == JobInit({"transcribe"}) /\ [][NextTranscribe \/ Common]_vars

\* no job: the state in which a utility function is explored on its own
NoJob ==
    /\ kind = "" /\ captions = <<>> /\ NVENC_AVAILABLE = "None"
    /\ pc = "" /\ i = 0 /\ attempt = 0 /\ translated = 0
    /\ cancelled = FALSE /\ trace = <<>>
    /\ cancelAt = -1 /\ cancelPc = "" /\ cancelI = 0 /\ captions0 = <<>>
    /\ cancel_calls = 0
    /\ segments = 0 /\ result = <<>>
    /\ duration = 0 /\ has_tts = FALSE /\ tmp_tts_path = 0 /\ use_nvenc = FALSE
    /\ stderr_lines = 0
    /\ delivered = 0 /\ busy = FALSE /\ was_cancelled = FALSE /\ cancel_enabled = FALSE
    /\ translate_skipped = 0 /\ status = [msg |-> "Ready.", n |-> 0]
    /\ progress_bar = 0 /\ dialogs = <<>>
    /\ video_path = 0 /\ tts_dir = 0 /\ tmp_dirs = [d \in {} |-> {}] /\ closed = FALSE
    /\ edits = 0

\* _build_atempo_chain is called with a tempo the caption table can hold
InitAtempo ==
    /\ NoJob /\ files = {}
    /\ speed \in MIN_SPEED..MAX_SPEED
    /\ remaining = 0 /\ filters = <<>> /\ fpc = "at_start"
    /\ fn_captions = <<>> /\ fn_out = <<>>

NextAtempo == AtStart \/ AtHalve \/ AtDouble

SpecAtempo == InitAtempo /\ [][NextAtempo]_vars

\* start times (ms) of the segments write_srt is explored with: they make every
\* field of the timestamp roll over; a segment lasts 1.5 s
SrtStarts == {0, 999, 59500, 3599000, 3723004}

\* the caption lists write_srt is explored with: the index need not be the position,
\* the Khmer text and the source text may be empty
SrtCaptions ==
    UNION { [1..n -> { Caption(idx, st, st + 1500, orig, km, 0) :
                         idx \in {1, 7}, st \in SrtStarts, orig \in {0, 1}, km \in {0, 200} }]
            : n \in 0..MaxSegs }

InitSrt ==
    /\ NoJob /\ files = {}
    /\ speed = 100 /\ remaining = 0 /\ filters = <<>> /\ fpc = "srt_start"
    /\ fn_captions \in SrtCaptions /\ fn_out = <<>>

SpecSrt == InitSrt /\ [][SrtWrite]_vars

\* the caption lists the delays are explored with (times in tenths of a ms): a segment
\* starts at 0 or at 1.5 s, its offset is -2 s, -1.5 s, -0.5 ms, 0, 0.5 ms or 1.2345 s,
\* it names a clip or not, and the clips named are on disk or not
DelayCaptions ==
    UNION { { [p \in 1..n |->
                 [Caption(p, st[p], st[p] + 10000, p, 100, IF tts[p] THEN OutPath(p) ELSE 0)
                    EXCEPT !.offset = off[p]]] :
                st  \in [1..n -> {0, 15000}],
                off \in [1..n -> {-20000, -15000, -5, 0, 5, 12345}],
                tts \in [1..n -> BOOLEAN] }
            : n \in 0..MaxSegs }

InitDelay ==
    /\ NoJob
    /\ speed = 100 /\ remaining = 0 /\ filters = <<>> /\ fpc = "pm_start"
    /\ fn_captions \in DelayCaptions /\ fn_out = <<>>
    /\ files \in InitFiles(fn_captions)

SpecDelay == InitDelay /\ [][PreMixBuild]_vars

\* the main window between jobs: videos are loaded, clips are synthesized into the
\* directory of the loaded video, the window is closed
InitApp ==
    /\ NoJob /\ files = {}
    /\ speed = 100 /\ remaining = 0 /\ filters = <<>> /\ fpc = ""
    /\ fn_captions = <<>> /\ fn_out = <<>>

NextApp ==
    \/ \E path \in {1, 2}, isfile \in BOOLEAN : load_video(path, isfile)
    \/ \E k \in 1..MaxSegs : TtsClip(k)
    \/ closeEvent

SpecApp == InitApp /\ [][NextApp]_vars

\* the caption table between jobs: videos are loaded, transcriptions arrive, the
\* slots of Translate and Synthesize jobs run, cells are edited by hand
NextTable ==
    \/ load_video(1, TRUE)
    \/ \E n \in 0..MaxSegs : on_captions_ready(n)
    \/ \E idx \in 1..MaxSegs : on_caption_translated(idx)
    \/ \E idx \in 1..MaxSegs : on_caption_audio_ready(idx)
    \/ \E row \in 1..MaxSegs, e \in EditInputs : on_item_changed(row, e.col, e.val, e.valid)

SpecTable == InitApp /\ [][NextTable]_vars

\* the main window from its construction on: videos are loaded, the job buttons
\* and the Cancel button are clicked, the window is closed
NextClick ==
    \/ \E path \in {1, 2}, isfile \in BOOLEAN : load_video(path, isfile)
    \/ \E k \in Kinds : on_job_clicked(k)
    \/ OnCancelClicked
    \/ closeEvent

SpecClick == InitApp /\ [][NextClick]_vars

\* the thread of a worker that works through the timeline segment by segment, and
\* a caller of cancel()
SpecSegments ==
    JobInit({"translate", "tts"}) /\ [][NextTranslate \/ NextTts \/ Finally \/ cancel]_vars

\* the thread of a worker that has cancel(), and a caller of cancel() that may call
\* it at any moment of the job and as often as it likes
SpecCancel ==
    JobInit({"translate", "export"}) /\ [][NextTranslate \/ NextExport \/ Finally \/ cancel]_vars

\* ---------------------------------------------------------------- properties
CallNames == {"call_translate", "call_tts", "call_transcribe", "call_write_srt",
              "call_probe", "call_detect_nvenc", "call_pre_mix", "call_encode"}

Has(name) == \E p \in Positions(trace) : trace[p].ev = name

\* the values emitted on `progress`, in order
ProgressValues == Filter(trace, {"progress"})

NonDecreasing(t) == \A p \in 1..(Len(t) - 1) : t[p].n <= t[p + 1].n

\* the cancel request arrived before the entry at position p was produced
AfterCancel(p) == cancelAt >= 0 /\ p > cancelAt

\* C1: every execution of run() of each of the four workers emits `finished` exactly
\* once, as the last signal of the run, whether it ends in success, error or
\* cancellation: nothing is emitted as `finished` before the run ends, and a run that
\* has ended has emitted it once, after everything else.
C1_FinishedOnceLast ==
    /\ Count(trace, {"finished"}) = IF pc = "done" THEN 1 ELSE 0
    /\ pc = "done" => trace[Len(trace)].ev = "finished"

\* a Synthesize run that ended after a fatal error
C1_Witness ==
    /\ kind = "tts" /\ pc = "done"
    /\ Has("error")
    /\ trace[Len(trace)].ev = "finished"

\* C2 (as claimed): a cancel() on ExportWorker or TranslateWorker before the terminal
\* outcome makes the job end as cancelled: neither `done` nor `error` is emitted after
\* the request, whatever the encoder's exit code.
C2_CancelledNoOutcome ==
    kind \in {"translate", "export"} =>
        \A p \in Positions(trace) :
            trace[p].ev \in {"done", "error"} => ~AfterCancel(p)

\* the cancel request arrived before run() reached its first checkpoint
CancelBeforeFirstCheckpoint ==
    /\ cancelAt = 0
    /\ \/ cancelPc = "start"
       \/ cancelPc = "tr_loop" /\ cancelI = 0

\* C3: a cancel() on TranslateWorker or ExportWorker that arrives before run() reaches
\* its first checkpoint leaves the run without any external call (no translation call,
\* no sidecar write, no ffmpeg process), without success payload and without `error`;
\* the run ends with `finished`.
C3_CancelBeforeStart ==
    (kind \in {"translate", "export"} /\ CancelBeforeFirstCheckpoint) =>
        /\ Count(trace, CallNames) = 0
        /\ Count(trace, {"done", "error", "caption_translated", "caption_skipped"}) = 0
        /\ pc \in {"start", "tr_loop", "finally", "done"}
        /\ pc = "done" => trace[Len(trace)].ev = "finished"

\* an Export run cancelled before its first checkpoint has ended
C3_Witness ==
    /\ kind = "export" /\ pc = "done"
    /\ CancelBeforeFirstCheckpoint
    /\ trace = <<Ev("finished", 0, 0)>>

\* the position in the timeline of the last segment the worker may still work on
\* after the cancel request: the one in progress, none if it stood at the loop head
LastSegmentAfterCancel ==
    IF cancelPc \in {"tts_call", "tts_wait", "tts_emit"} THEN cancelI + 1 ELSE cancelI

\* C4 (as claimed): cancellation works in all four stages: after the coordinator's
\* cancel request a Synthesize job makes no synthesis call for a later segment and a
\* Transcribe job does not publish captions_ready.
C4_CancelStopsEveryStage ==
    /\ kind = "tts" =>
          \A p \in Positions(trace) :
              (trace[p].ev = "call_tts" /\ AfterCancel(p)) =>
                  trace[p].n <= LastSegmentAfterCancel
    /\ kind = "transcribe" =>
          \A p \in Positions(trace) :
              trace[p].ev = "captions_ready" => ~AfterCancel(p)

\* C5: the values TranscribeWorker, TranslateWorker and TTSWorker emit on `progress`
\* in one run never decrease, for every timeline length including the empty one, and
\* the last value is 100 when the run has ended without error and without cancellation.
C5_ProgressMonotone ==
    kind \in {"transcribe", "translate", "tts"} =>
        /\ NonDecreasing(ProgressValues)
        /\ (pc = "done" /\ ~Has("error") /\ ~cancelled) =>
              /\ ProgressValues # <<>>
              /\ ProgressValues[Len(ProgressValues)].n = 100

\* a Synthesize run over a full timeline has ended with success
C5_Witness ==
    /\ kind = "tts" /\ pc = "done" /\ ~Has("error")
    /\ Len(captions) = 2
    /\ Len(ProgressValues) = 3
    /\ ProgressValues[3].n = 100

\* C6 (as claimed): the values an Export job emits on `progress` never decrease, for
\* every sequence of diagnostic lines of the encoder, with and without dub audio.
C6_ExportProgressMonotone ==
    kind = "export" => NonDecreasing(ProgressValues)

\* entries of the trace that are about the segment with index idx
CallsFor(name, idx) == {p \in Positions(trace) : trace[p].ev = name /\ trace[p].n = idx}

Indices == {captions0[p].index : p \in Positions(captions0)}

\* every attempt of the segment was made and failed (raised or came back empty)
TranslateExhausted(idx) ==
    \E p \in Positions(trace) :
        /\ trace[p].ev \in {"ret_empty", "ret_raise"}
        /\ trace[p].n = idx /\ trace[p].x = 3

\* the coordinator has run the slots of every signal up to position p
Delivered(p) == delivered >= p

\* C7: TranslateWorker calls the translation function at most 3 times per segment and
\* not again after a non-empty result; a segment whose attempts all failed is reported
\* skipped and keeps the dub text it had, the worker goes on with the next segment,
\* and `error` is not emitted.
C7_TranslateRetry ==
    kind = "translate" =>
        /\ \A idx \in Indices :
              LET calls     == CallsFor("call_translate", idx)
                  oks       == CallsFor("ret_ok", idx)
                  skips     == CallsFor("caption_skipped", idx)
                  exhausted == TranslateExhausted(idx)
              IN  /\ Cardinality(calls) <= 3
                  /\ \A p \in oks, q \in calls : q < p
                  /\ \A p \in skips :
                        /\ exhausted
                        /\ oks = {}
                        /\ Delivered(p) => captions[idx].khmer_text = captions0[idx].khmer_text
                  /\ exhausted =>
                        \/ pc = "tr_emit" /\ i + 1 = idx
                        \/ skips # {}
                  /\ (exhausted /\ idx < Len(captions0) /\ pc = "done" /\ ~cancelled) =>
                        CallsFor("call_translate", idx + 1) # {}
        /\ ~Has("error")

\* the first segment was skipped after three failed attempts and kept its earlier text,
\* the second was translated
C7_Witness ==
    /\ kind = "translate" /\ pc = "done" /\ delivered = Len(trace)
    /\ Len(captions0) = 2 /\ captions0[1].khmer_text = 200
    /\ TranslateExhausted(1)
    /\ captions[1].khmer_text = 200
    /\ captions[2].khmer_text = Translation(captions0[2].original_text)

ExhaustedSegments == {idx \in Indices : TranslateExhausted(idx)}

FinishedAt == CHOOSE p \in Positions(trace) : trace[p].ev = "finished"

\* C8: in a Translate job that is not cancelled every exhausted segment adds exactly 1
\* to the coordinator's skip counter and touches no other segment: the counter always
\* equals the number of skip notifications received, and when the job's `finished`
\* arrives it equals the number of exhausted segments, which is the number reported,
\* and every other segment carries its translation.
C8_SkipCounter ==
    (kind = "translate" /\ cancelAt < 0) =>
        /\ ~(Has("finished") /\ Delivered(FinishedAt)) =>
              translate_skipped =
                  Cardinality({p \in 1..delivered : trace[p].ev = "caption_skipped"})
        /\ (Has("finished") /\ delivered >= FinishedAt - 1) =>
              /\ \A idx \in Indices \ ExhaustedSegments :
                    captions[idx].khmer_text = Translation(captions0[idx].original_text)
              /\ \A idx \in ExhaustedSegments :
                    captions[idx].khmer_text = captions0[idx].khmer_text
              /\ IF Delivered(FinishedAt)
                   THEN status = [msg |-> "Translation complete.",
                                  n |-> Cardinality(ExhaustedSegments)]
                   ELSE translate_skipped = Cardinality(ExhaustedSegments)

\* two segments were exhausted in a job that was not cancelled, and the coordinator
\* has handled `finished`
C8_Witness ==
    /\ kind = "translate" /\ cancelAt < 0
    /\ Has("finished") /\ Delivered(FinishedAt)
    /\ Cardinality(ExhaustedSegments) = 2
    /\ status.n = 2

\* C9: when all synthesis attempts of one segment have failed, TTSWorker emits `error`
\* at once, makes no synthesis call and emits no caption_audio_ready afterwards, and
\* has not emitted and does not emit progress 100.
C9_SynthesisFatal ==
    kind = "tts" =>
        \A p \in Positions(trace) :
            (trace[p].ev = "ret_raise" /\ trace[p].x = 4) =>
                /\ trace[p + 1].ev = "error"
                /\ \A q \in (p + 1)..Len(trace) :
                      trace[q].ev \notin {"call_tts", "caption_audio_ready"}
                /\ \A q \in Positions(trace) :
                      trace[q].ev = "progress" => trace[q].n < 100
                /\ pc \in {"finally", "done"}

\* the second segment failed five times after the first one was synthesized
C9_Witness ==
    /\ kind = "tts" /\ pc = "done"
    /\ CallsFor("caption_audio_ready", 1) # {}
    /\ Cardinality(CallsFor("call_tts", 2)) = 5
    /\ Has("error")

\* the wait that has to follow the failed attempt number k, in milliseconds
ExpectedWait(k) == CASE k = 0 -> 1000 [] k = 1 -> 2000 [] k = 2 -> 4000 [] k = 3 -> 8000

\* C10: TTSWorker makes at most 5 synthesis attempts per segment; the failed attempt
\* number k (k = 0..3) is followed by a wait of 2^k seconds (1, 2, 4, 8), the fifth
\* failed attempt by no wait, and a successful attempt by no further attempt.
C10_Backoff ==
    kind = "tts" =>
        /\ \A idx \in Indices :
              /\ Cardinality(CallsFor("call_tts", idx)) <= 5
              /\ \A p \in CallsFor("ret_ok", idx), q \in CallsFor("call_tts", idx) : q < p
        /\ \A p \in Positions(trace) :
              trace[p].ev = "ret_raise" =>
                  /\ trace[p].x \in 0..4
                  /\ trace[p].x < 4 => trace[p + 1] = Ev("sleep", ExpectedWait(trace[p].x), 0)
                  /\ trace[p].x = 4 => trace[p + 1].ev # "sleep"
                  /\ (trace[p].x < 4 /\ p + 2 <= Len(trace)) =>
                        trace[p + 2] = Ev("call_tts", trace[p].n, trace[p].x + 1)

\* a segment was synthesized at the fifth attempt, after waits of 1, 2, 4 and 8 seconds
C10_Witness ==
    /\ kind = "tts"
    /\ Filter(trace, {"sleep"}) = <<Ev("sleep", 1000, 0), Ev("sleep", 2000, 0),
                                    Ev("sleep", 4000, 0), Ev("sleep", 8000, 0)>>
    /\ trace[Len(trace)] = Ev("ret_ok", 1, 4)

\* export_video has returned or raised: the worker is past its call
ExportVideoLeft == pc \in {"finally", "done"}

\* C11 (as claimed): whenever export_video created the intermediate file of pass 1,
\* the file no longer exists once export_video has returned or raised (successful
\* encode, encoder failure, pre-mix failure).
C11_IntermediateRemoved ==
    (kind = "export" /\ ExportVideoLeft /\ Has("call_pre_mix")) => TmpMix \notin files

\* the entry at position p is the exit of the encoder with a non-zero code
EncoderFailed(p) == trace[p].ev = "exit" /\ trace[p].n # 0

\* C12: when the encoder of the mux/encode pass exits with a non-zero code, the next
\* thing the worker does is emit `error` carrying the exit code and the last (at most
\* 20) diagnostic lines kept; `done` and progress 100 are not emitted in that job.
C12_EncoderFailureFatal ==
    kind = "export" =>
        \A p \in Positions(trace) :
            EncoderFailed(p) =>
                /\ p < Len(trace)
                /\ trace[p + 1] = Ev("error", trace[p].n,
                                     IF stderr_lines > 20 THEN 20 ELSE stderr_lines)
                /\ ~Has("done")
                /\ \A q \in Positions(trace) :
                      trace[q].ev = "progress" => trace[q].n < 100
                /\ pc \in {"finally", "done"}

\* the encoder failed after printing two lines that were kept, the job has ended
C12_Witness ==
    /\ kind = "export" /\ pc = "done"
    /\ stderr_lines = 2
    /\ \E p \in Positions(trace) : EncoderFailed(p) /\ trace[p + 1] = Ev("error", 1, 2)

\* the entry at position p is the failure of the pre-mix pass
PreMixFailed(p) == p > 1 /\ trace[p].ev = "ret_raise" /\ trace[p - 1].ev = "call_pre_mix"

\* C13 (as claimed): when the pre-mix pass fails, the mux/encode pass is not launched
\* and the job ends with `error`, not with `done`.
C13_PreMixFailureFatal ==
    kind = "export" =>
        \A p \in Positions(trace) :
            PreMixFailed(p) =>
                /\ ~Has("call_encode")
                /\ ~Has("done")
                /\ pc = "done" => Has("error")

\* the entry at position p is a failure that export_video or the worker treats as fatal:
\* write_srt or the duration probe raised, the encoder could not be started, or it
\* exited with a non-zero code
FatalFailure(p) ==
    \/ p < Len(trace) /\ trace[p].ev \in {"call_write_srt", "call_probe"}
                      /\ trace[p + 1].ev = "error"
    \/ p > 1 /\ trace[p].ev = "ret_raise" /\ trace[p - 1].ev = "call_encode"
    \/ EncoderFailed(p)

\* C13 (amended): the first fatal error of an Export job (write_srt, the duration
\* probe, the start of the encoder, a non-zero exit of the encoder) aborts the
\* remaining work: `error` follows at once, no external call follows and `done` is not
\* emitted.  A failure of the pre-mix pass is not fatal: the mux/encode pass is then
\* launched with the original audio as its only audio input.
C13_FirstFatalAborts ==
    kind = "export" =>
        \A p \in Positions(trace) :
            /\ FatalFailure(p) =>
                  /\ \E q \in p..(p + 1) : q <= Len(trace) /\ trace[q].ev = "error"
                  /\ \A q \in (p + 1)..Len(trace) : trace[q].ev \notin CallNames
                  /\ ~Has("done")
            /\ PreMixFailed(p) =>
                  /\ trace[p + 1] = Ev("progress", 33, 0)
                  /\ \A q \in Positions(trace) :
                        trace[q].ev = "call_encode" => trace[q].n = 1
                  /\ pc \notin {"finally", "done"} \/ Has("call_encode")

\* the pre-mix pass failed, the encoder was launched all the same and failed in turn
C13_Witness ==
    /\ kind = "export" /\ pc = "done"
    /\ \E p \in Positions(trace) : PreMixFailed(p)
    /\ \E p \in Positions(trace) : EncoderFailed(p)
    /\ Has("call_encode") /\ Has("error")

\* no segment of the timeline has an audio file that is present
NoDubAudio == \A p \in Positions(captions) : ~Present(captions[p])

\* C14: when no segment has a present audio file, export_video runs no pre-mix and
\* creates no intermediate file, the encoder gets the original audio as its only audio
\* input, and the job ends with `done` and without `error` whenever the sidecar write,
\* the duration probe and the encoder succeed.
C14_NoDubNoPreMix ==
    (kind = "export" /\ NoDubAudio) =>
        /\ ~Has("call_pre_mix")
        /\ TmpMix \notin files /\ tmp_tts_path = 0
        /\ \A p \in Positions(trace) :
              /\ trace[p].ev = "call_encode" => trace[p].n = 1
              /\ trace[p].ev = "error" => p > 1 /\ FatalFailure(p - 1)
              /\ (trace[p].ev = "exit" /\ trace[p].n = 0) =>
                    /\ trace[Len(trace)].ev \in {"done", "finished"}
                    /\ Has("done") /\ ~Has("error")

\* the timeline names an audio file that is gone; the export has succeeded
C14_Witness ==
    /\ kind = "export" /\ pc = "done" /\ NoDubAudio
    /\ \E p \in Positions(captions) : captions[p].tts_audio_path # 0
    /\ Has("done") /\ OutFile \in files
    /\ \E p \in Positions(trace) : trace[p] = Ev("call_encode", 1, 0)

\* C15 (as claimed): the coordinator stays busy, and so keeps every handler from
\* starting another job, for as long as the worker it started has not emitted
\* `finished`: the busy state is not cleared before that.
C15_BusyUntilFinished == pc # "done" => busy

\* C16: in one run a worker emits at most one terminal outcome: its success payload
\* (done, captions_ready) and `error` together occur at most once.
C16_OneOutcome == Count(trace, {"done", "captions_ready", "error"}) <= 1

\* a Transcribe run has published its captions and ended
C16_Witness ==
    /\ kind = "transcribe" /\ pc = "done"
    /\ Has("captions_ready") /\ ~Has("error")
    /\ Len(result) = 2

Notifications == {"caption_translated", "caption_skipped", "caption_audio_ready"}

SegmentCalls == {"call_translate", "call_tts"}

\* C17: Translate and Synthesize work through the timeline one segment at a time (the
\* timelines explored number their segments by position): notifications are emitted
\* in timeline order, every external call made before a notification is for that
\* segment or an earlier one and every call made after it is for a later segment, and
\* between the calls for two different segments lies the notification of the earlier.
C17_TimelineOrder ==
    kind \in {"translate", "tts"} =>
        \A q \in Positions(trace) :
            /\ trace[q].ev \in Notifications =>
                  \A c \in Positions(trace) :
                      /\ (c < q /\ trace[c].ev \in Notifications) => trace[c].n < trace[q].n
                      /\ trace[c].ev \in SegmentCalls => (c < q <=> trace[c].n <= trace[q].n)
            /\ (trace[q].ev \in SegmentCalls /\ q > 1) =>
                  LET c == CHOOSE c \in 0..(q - 1) :
                              /\ c > 0 => trace[c].ev \in SegmentCalls
                              /\ \A d \in (c + 1)..(q - 1) : trace[d].ev \notin SegmentCalls
                  IN (c > 0 /\ trace[c].n # trace[q].n) =>
                        /\ trace[c].n < trace[q].n
                        /\ \E d \in (c + 1)..(q - 1) :
                              trace[d].ev \in Notifications /\ trace[d].n = trace[c].n

\* a Translate run over two segments: the first was skipped after its attempts, the
\* second translated, and the run has ended
C17_Witness ==
    /\ kind = "translate" /\ pc = "done" /\ Len(captions0) = 2
    /\ Filter(trace, Notifications) =
           <<Ev("caption_skipped", 1, 0), Ev("caption_translated", 2, Translation(2))>>

\* C18: the hardware-encoder query runs only while the cache is None, and its result
\* is what is written: once _NVENC_AVAILABLE holds a value no step changes it or runs
\* _detect_nvenc again, and every export_video call takes use_nvenc from the cache.
C18_ProbeOnce ==
    [][ kind = "export" =>
          /\ NVENC_AVAILABLE # "None" =>
                /\ NVENC_AVAILABLE' = NVENC_AVAILABLE
                /\ Count(trace', {"call_detect_nvenc"}) = Count(trace, {"call_detect_nvenc"})
          /\ NVENC_AVAILABLE' # NVENC_AVAILABLE =>
                Count(trace', {"call_detect_nvenc"}) = Count(trace, {"call_detect_nvenc"}) + 1
          /\ (pc = "ev_probe" /\ pc' = "ev_pass1") =>
                use_nvenc' = (NVENC_AVAILABLE' = "True")
      ]_vars

\* an export_video call that found the cache written (hardware unavailable) by an
\* earlier call: no query, software path
C18_Witness ==
    /\ kind = "export" /\ pc = "ev_pass1"
    /\ NVENC_AVAILABLE = "False" /\ ~use_nvenc
    /\ ~Has("call_detect_nvenc")

\* the entry at position p is the failure of the hardware-encoder query
QueryFailed(p) == p > 1 /\ trace[p].ev = "ret_raise" /\ trace[p - 1].ev = "call_detect_nvenc"

\* C19: a failed capability query leaves "hardware unavailable" in the cache and is not
\* reported as an error: export_video goes on, and the encoder it launches uses
\* software decoding and software encoding.
C19_ProbeFailureIsSoftware ==
    kind = "export" =>
        \A p \in Positions(trace) :
            QueryFailed(p) =>
                /\ NVENC_AVAILABLE = "False" /\ ~use_nvenc
                /\ p < Len(trace) => trace[p + 1].ev # "error"
                /\ pc # "ev_probe"
                /\ \A q \in Positions(trace) :
                      trace[q].ev = "call_encode" => trace[q].x = 0
                /\ \A q \in Positions(trace) :
                      trace[q].ev = "error" => q > 1 /\ FatalFailure(q - 1)

\* the query failed and the export succeeded with the software encoder
C19_Witness ==
    /\ kind = "export" /\ pc = "done"
    /\ \E p \in Positions(trace) : QueryFailed(p)
    /\ \E p \in Positions(trace) : trace[p].ev = "call_encode" /\ trace[p].x = 0
    /\ Has("done")

\* the product of the entries of a sequence of numbers
RECURSIVE Product(_)
Product(f) == IF f = <<>> THEN 1 ELSE Head(f) * Product(Tail(f))

RECURSIVE Power(_, _)
Power(b, e) == IF e = 0 THEN 1 ELSE b * Power(b, e - 1)

\* C20: for every tempo in [0.25, 4.0] the factors _build_atempo_chain applies lie in
\* [0.5, 2.0] each and their product is the tempo (factors in thousandths, tempo in
\* hundredths); tempo 1.0 applies no filter, 3.0 gives [2.0, 1.5], 0.25 gives [0.5, 0.5].
C20_AtempoChain ==
    fpc = "at_done" =>
        /\ \A k \in Positions(filters) : filters[k] >= 500 /\ filters[k] <= 2000
        /\ Product(filters) * 100 = speed * Power(1000, Len(filters))
        /\ speed = 100 => filters = <<>>
        /\ speed = 300 => filters = <<2000, 1500>>
        /\ speed = 25  => filters = <<500, 500>>

\* the chain for tempo 3.0 has been built
C20_Witness == fpc = "at_done" /\ speed = 300 /\ filters = <<2000, 1500>>

\* C21: cancel() is idempotent and may be called at any moment of the job: no step
\* of the job clears the flag once it is set, and every call of cancel(), the first
\* one like the repeated ones, leaves the flag set and changes nothing else of the
\* worker or of the coordinator.
C21_CancelIdempotent ==
    [][ /\ cancelled => cancelled'
        /\ cancel_calls' # cancel_calls =>
              /\ cancelled'
              /\ UNCHANGED <<kind, captions, pc, i, trLocals, tsLocals, exLocals, trace,
                             coordVars, fnLocals, fnArgs, appVars>> ]_vars

\* cancel() was called several times while a translation call was in flight
C21_Witness == cancel_calls = 2 /\ cancelled /\ pc = "tr_wait" /\ cancelPc = "tr_wait"

\* C22: in an Export job the sidecar file is written before any audio or video
\* processing: a pre-mix or encoder process (and the probes before them) is launched
\* only after write_srt has returned and the file is on disk; when write_srt raised,
\* no process is launched at all and the job ends with `error` and without `done`.
Processing == {"call_probe", "call_detect_nvenc", "call_pre_mix", "call_encode"}

C22_SidecarFirst ==
    /\ \A p \in Positions(trace) :
          trace[p].ev \in Processing =>
             /\ SrtFile \in files
             /\ \E q \in 1..(p - 2) : /\ trace[q].ev = "call_write_srt"
                                       /\ trace[q + 1] = Ev("progress", 5, 0)
    /\ \A q \in Positions(trace) :
          (trace[q].ev = "call_write_srt" /\ q < Len(trace) /\ trace[q + 1].ev # "progress") =>
             /\ trace[q + 1].ev = "error"
             /\ Count(trace, Processing \cup {"done"}) = 0
             /\ Len(trace) <= q + 2
             /\ pc \in {"finally", "done"}

\* an export ran the pre-mix pass and the encoder to the end
C22_Witness ==
    /\ pc = "done" /\ Has("call_pre_mix") /\ Has("call_encode") /\ Has("done")

\* what a timestamp of the file reads as, in ms (srt_utils._ts_to_seconds)
TsValue(ts) == ts.h * 3600000 + ts.m * 60000 + ts.s * 1000 + ts.ms

WellFormedTs(ts) == ts.h >= 0 /\ ts.m \in 0..59 /\ ts.s \in 0..59 /\ ts.ms \in 0..999

C24_TempDirsDiscarded ==
    DOMAIN tmp_dirs \subseteq (IF closed \/ tts_dir = 0 THEN {} ELSE {tts_dir})

\* the position in the caption list of the clip that is the k-th stream of the mix
StreamOf(k) ==
    CHOOSE p \in Positions(fn_captions) :
       /\ Present(fn_captions[p])
       /\ Cardinality({q \in 1..p : Present(fn_captions[q])}) = k

\* C25: effective_start is max(0, start + offset): never negative, equal to
\* start + offset whenever that sum is not negative; and it is the delay of the
\* segment's clip in the pre-mix: every present clip is one stream of the mix, in
\* timeline order, delayed by its effective start in whole milliseconds (at most one
\* millisecond less than the effective start, never more than it).
C25_EffectiveStart ==
    fpc = "pm_done" =>
       /\ \A p \in Positions(fn_captions) :
             LET cap == fn_captions[p]
             IN /\ effective_start(cap) >= 0
                /\ cap.start + cap.offset >= 0 => effective_start(cap) = cap.start + cap.offset
                /\ cap.start + cap.offset < 0 => effective_start(cap) = 0
       /\ Len(fn_out) = Cardinality({p \in Positions(fn_captions) : Present(fn_captions[p])})
       /\ \A k \in Positions(fn_out) :
             LET cap == fn_captions[StreamOf(k)]
             IN /\ fn_out[k].input = cap.tts_audio_path
                /\ fn_out[k].adelay * 10 <= effective_start(cap)
                /\ effective_start(cap) < fn_out[k].adelay * 10 + 20

\* two clips are mixed: the first has an offset that would start it before 0 and is
\* not delayed, the second starts at 1.5 s + 1.2345 s and is delayed by 2734 ms
C25_Witness ==
    /\ fpc = "pm_done" /\ Len(fn_out) = 2
    /\ fn_captions[1].start + fn_captions[1].offset < 0 /\ fn_out[1].adelay = 0
    /\ fn_captions[2].start + fn_captions[2].offset = 27345 /\ fn_out[2].adelay = 2734

\* C26: in Translate a fixed delay (RETRY_DELAY) separates every two consecutive
\* translation attempts for the same segment, whether the earlier attempt raised or
\* returned an empty result, and no delay follows the last attempt of a segment.
C26_RetryDelay ==
    /\ \A p \in Positions(trace) :
          (trace[p].ev = "call_translate" /\ trace[p].x > 1) =>
             trace[p - 1] = Ev("sleep", RETRY_DELAY, 0)
    /\ \A p \in Positions(trace) :
          (trace[p].ev = "sleep" /\ p < Len(trace)) => trace[p + 1].ev = "call_translate"

\* C27: in Translate cancellation is observed at every suspension point, retry delays
\* included: once cancel() has been requested, at most the translation call in flight
\* completes (or the one call the worker was just about to dispatch is made) and no
\* further translation call is dispatched, not even a retry for the current segment.
C27_CancelStopsRetries ==
    (kind = "translate" /\ cancelAt >= 0) =>
        Cardinality({p \in Positions(trace) : trace[p].ev = "call_translate" /\ AfterCancel(p)})
           <= IF cancelPc = "tr_call" THEN 1 ELSE 0

\* the positions of ExportWorker.run between the return of write_srt and the launch
\* of the encoder
SidecarWrittenEncoderNotLaunched == {"ex_check", "ev_probe", "ev_pass1", "ev_premix", "ev_run"}

\* C28: if cancel() is requested on ExportWorker after the sidecar file was written
\* and before the encoder is launched, no pre-mix or encoder process is started after
\* the request, the sidecar file stays on disk, and the job ends without `done` and
\* without `error`.
C28_CancelBeforeEncoder ==
    (kind = "export" /\ cancelAt >= 0 /\ cancelPc \in SidecarWrittenEncoderNotLaunched) =>
        /\ SrtFile \in files
        /\ \A p \in Positions(trace) :
              AfterCancel(p) => trace[p].ev \notin {"call_pre_mix", "call_encode", "done", "error"}

\* the position in the trace of the k-th progress update of the run
ProgressAt(k) ==
    CHOOSE q \in Positions(trace) :
       /\ trace[q].ev = "progress"
       /\ Cardinality({r \in 1..q : trace[r].ev = "progress"}) = k

\* C29: TTSWorker skips every segment whose Khmer text is empty: no synthesis call is
\* made for it, no caption_audio_ready is emitted for it and nothing is waited for;
\* once the loop has passed it, its progress update has been emitted, directly
\* followed by the work on the next segment.
C29_EmptyTextSkipped ==
    kind = "tts" =>
        \A p \in Positions(captions0) :
            captions0[p].khmer_text = 0 =>
               /\ \A q \in Positions(trace) :
                     trace[q].ev \in {"call_tts", "ret_ok", "ret_raise", "caption_audio_ready"}
                        => trace[q].n # captions0[p].index
               /\ i >= p =>
                     /\ Count(trace, {"progress"}) >= p
                     /\ trace[ProgressAt(p)] = Ev("progress", Pct(p, Len(captions0)), 0)
                     /\ ProgressAt(p) < Len(trace) => trace[ProgressAt(p) + 1].ev # "sleep"
                     /\ (p > 1 /\ captions0[p - 1].khmer_text = 0) =>
                           ProgressAt(p) = ProgressAt(p - 1) + 1

\* a run skipped its first segment, synthesized the second and ended
C29_Witness ==
    /\ kind = "tts" /\ pc = "done" /\ Len(captions0) = 2
    /\ captions0[1].khmer_text = 0 /\ captions0[2].khmer_text # 0
    /\ trace[1] = Ev("progress", 50, 0) /\ trace[2] = Ev("call_tts", 2, 0)
    /\ Has("caption_audio_ready")

\* the position in the timeline of the segment that carries index idx
PositionOf(idx) == CHOOSE p \in Positions(captions0) : captions0[p].index = idx

\* C30: in Synthesize the inter-request delay lies between the synthesis requests of
\* two different segments: the publication of a synthesized segment that is not the
\* last of the timeline is followed by the delay, so every synthesis call for a later
\* segment comes after it; no delay follows the last segment of the timeline, and
\* the delay occurs nowhere else.
C30_InterRequestDelay ==
    kind = "tts" =>
        /\ \A q \in Positions(trace) :
              trace[q].ev = "caption_audio_ready" =>
                 /\ q + 1 <= Len(trace) /\ trace[q + 1].ev = "progress"
                 /\ IF PositionOf(trace[q].n) < Len(captions0)
                      THEN q + 2 <= Len(trace) /\ trace[q + 2] = Ev("sleep", INTER_REQUEST, 0)
                      ELSE q + 2 <= Len(trace) => trace[q + 2].ev # "sleep"
        /\ \A q, r \in Positions(trace) :
              (q < r /\ trace[q].ev = "ret_ok" /\ trace[r].ev = "call_tts"
                     /\ trace[r].n # trace[q].n) =>
                 \E s \in (q + 1)..(r - 1) : trace[s] = Ev("sleep", INTER_REQUEST, 0)
        /\ \A s \in Positions(trace) :
              trace[s] = Ev("sleep", INTER_REQUEST, 0) =>
                 s > 2 /\ trace[s - 2].ev = "caption_audio_ready"

\* two segments were synthesized: one delay, between them, none after the second
C30_Witness ==
    /\ kind = "tts" /\ pc = "done" /\ Len(captions0) = 2
    /\ Count(trace, {"caption_audio_ready"}) = 2
    /\ Cardinality({s \in Positions(trace) : trace[s] = Ev("sleep", INTER_REQUEST, 0)}) = 1

\* C31: a segment's audio path is set only after synthesis succeeded for it:
\* caption_audio_ready(index, path) directly follows the return of a synthesis call
\* for that segment that raised nothing, path is the file that call wrote, and the
\* segment has Khmer text; the coordinator sets in the timeline only the paths of the
\* notifications it has received.
C31_PathAfterSuccess ==
    kind = "tts" =>
        /\ \A q \in Positions(trace) :
              trace[q].ev = "caption_audio_ready" =>
                 /\ q > 1 /\ trace[q - 1].ev = "ret_ok" /\ trace[q - 1].n = trace[q].n
                 /\ trace[q].x = OutPath(trace[q].n) /\ trace[q].x \in files
                 /\ captions0[PositionOf(trace[q].n)].khmer_text # 0
        /\ \A p \in Positions(captions) :
              captions[p].tts_audio_path # 0 =>
                 \E q \in 1..delivered :
                    trace[q] = Ev("caption_audio_ready", captions[p].index,
                                  captions[p].tts_audio_path)

\* the first segment was synthesized at its second attempt and its path is in the
\* timeline; the second segment failed five times and has no path
C31_Witness ==
    /\ kind = "tts" /\ pc = "done" /\ Len(captions) = 2
    /\ captions[1].tts_audio_path = OutPath(1) /\ captions[2].tts_audio_path = 0
    /\ Cardinality(CallsFor("ret_raise", 1)) = 1
    /\ Cardinality(CallsFor("ret_raise", 2)) = 5
    /\ delivered = Len(trace)

\* the coordinator has run the slot of captions_ready
CaptionsReadyDelivered ==
    \E q \in 1..delivered : trace[q].ev = "captions_ready"

\* C32: a successful Transcribe job replaces the whole timeline: once captions_ready
\* is delivered the timeline is exactly the returned segments in order, with indices
\* 1..N, empty Khmer text and no audio path, and nothing of the previous timeline is
\* left; until then, and in a job that fails, the timeline is unchanged, and a failed
\* job emits no captions_ready.
C32_TranscribeReplaces ==
    kind = "transcribe" =>
        /\ CaptionsReadyDelivered =>
              /\ Len(captions) = segments
              /\ \A k \in Positions(captions) :
                    captions[k] = [index |-> k, start |-> Segment(k).start,
                                   end |-> Segment(k).end, original_text |-> Segment(k).text,
                                   khmer_text |-> 0, speed |-> 100, offset |-> 0,
                                   tts_audio_path |-> 0, voice |-> 0]
        /\ ~CaptionsReadyDelivered => captions = captions0
        /\ Has("error") => ~Has("captions_ready") /\ captions = captions0

\* a timeline of two translated segments was replaced by a transcription of one
C32_Witness ==
    /\ kind = "transcribe" /\ pc = "done" /\ CaptionsReadyDelivered
    /\ Len(captions0) = 2 /\ captions0[1].khmer_text # 0 /\ captions0[1].tts_audio_path # 0
    /\ Len(captions) = 1 /\ captions[1].khmer_text = 0 /\ captions[1].tts_audio_path = 0

\* C33: after any sequence of video loads, transcription results, Translate and
\* Synthesize callbacks and manual edits, no two segments of the timeline have the
\* same index.
C33_IndexUnique ==
    \A p, q \in Positions(captions) : captions[p].index = captions[q].index => p = q

\* a timeline of two segments that was loaded, translated, synthesized and edited
C33_Witness ==
    /\ Len(captions) = 2 /\ edits = MaxEdits
    /\ captions[1].khmer_text = Translation(1)
    /\ captions[2].tts_audio_path = OutPath(2)
    /\ captions[1].start = 5 /\ captions[2].original_text = 9

\* C34: every segment of the timeline ends after it starts.
C34_EndAfterStart ==
    \A p \in Positions(captions) : captions[p].end > captions[p].start

C36_DuckingOnlyWithDub ==
    pc = "ev_lines" =>
        /\ MutedWindows # {} => AudioInputs = 2
        /\ AudioInputs = 2 =>
              MutedWindows = {p \in Positions(captions) : Present(captions[p])}

\* a message box of the given kind has been shown for this job
Shown(box) == \E p \in 1..Len(dialogs) : dialogs[p] = box

\* C37: the coordinator reports one outcome per job: the error dialog is never
\* shown together with a success status or with 'Cancelled.', and the 'Export
\* complete' box is never shown together with 'Cancelled.'.
C37_OneOutcomeReported ==
    /\ Shown("error") =>
          status.msg \notin {"TTS generation complete.", "Translation complete.", "Cancelled."}
    /\ Shown("export_complete") => status.msg # "Cancelled."

\* C38: whenever the coordinator is busy with a job, a worker has been started for it
\* (and the busy state ends with that worker's `finished`).
C38_BusyHasWorker == busy => kind \in Kinds /\ pc # ""

\* once busy, always busy
C38_StuckBusy == [][busy => busy']_vars

\* C39: an Export job reports more than 99 percent only as the step that directly
\* follows the exit of the encoder with code 0; whatever the encoder prints while it
\* runs, elapsed times beyond the duration included, is reported as at most 99.
C39_EncodeBelow100 ==
    \A q \in 1..Len(trace) :
        trace[q].ev = "progress" /\ trace[q].n > 99 =>
            /\ q > 1 /\ trace[q - 1].ev = "exit" /\ trace[q - 1].n = 0
            /\ trace[q].n = 100

\* the encoder printed a time at or beyond the duration (reported as 99), then
\* exited with 0 (100)
C39_Witness ==
    \E q \in 3..Len(trace) :
        /\ trace[q].ev = "progress" /\ trace[q].n = 100
        /\ trace[q - 1].ev = "exit"
        /\ trace[q - 2].ev = "progress" /\ trace[q - 2].n = 99
        /\ \E c \in 1..(q - 3) : trace[c].ev = "call_encode"

\* C40: a Translate job changes nothing of the timeline but the Khmer text of
\* segments it translated, a Synthesize job nothing but the audio path of segments it
\* synthesized: number, order and every other field of the segments stay as they
\* were when the job started, and a path the coordinator has received stays set,
\* also after the job has failed on a later segment.
C40_JobFrame ==
    kind \in {"translate", "tts"} =>
        /\ Len(captions) = Len(captions0)
        /\ \A p \in Positions(captions) :
              LET c  == captions[p]
                  c0 == captions0[p]
              IN /\ [c EXCEPT !.khmer_text = 0, !.tts_audio_path = 0]
                      = [c0 EXCEPT !.khmer_text = 0, !.tts_audio_path = 0]
                 /\ kind = "translate" =>
                       /\ c.tts_audio_path = c0.tts_audio_path
                       /\ c.khmer_text # c0.khmer_text =>
                             \E q \in 2..delivered :
                                /\ trace[q] = Ev("caption_translated", c.index, c.khmer_text)
                                /\ trace[q - 1].ev = "ret_ok" /\ trace[q - 1].n = c.index
                 /\ kind = "tts" =>
                       /\ c.khmer_text = c0.khmer_text
                       /\ c.tts_audio_path # c0.tts_audio_path =>
                             \E q \in 2..delivered :
                                /\ trace[q] = Ev("caption_audio_ready", c.index, c.tts_audio_path)
                                /\ trace[q - 1].ev = "ret_ok" /\ trace[q - 1].n = c.index
        /\ kind = "tts" =>
              \A q \in 1..delivered :
                 trace[q].ev = "caption_audio_ready" =>
                    captions[PositionOf(trace[q].n)].tts_audio_path = trace[q].x

\* a Synthesize job that published the path of the first segment and then failed on
\* the second one: the error has been shown, the first path is still in the timeline
C40_Witness ==
    /\ kind = "tts" /\ Len(captions) = 2 /\ Has("error") /\ delivered = Len(trace)
    /\ captions[1].tts_audio_path = OutPath(1) /\ captions[2].tts_audio_path = 0
    /\ captions[2].khmer_text # 0

=============================================================================
